---- MODULE Spec2Model ----
(***************************************************************************)
(* Year-stepped multi-model food security simulation: the batch loop over  *)
(* SCENARIOS, run_simulation_scenario with its year loop over the seven    *)
(* domain models, the aggregation of the year records and the cross-       *)
(* scenario comparison (run_full_simulation.py, run_simulation.py), and    *)
(* the domain models as far as the year loop threads their values.         *)
(*                                                                         *)
(* Numbers are fixed-point integers.  Units:                               *)
(*   population            tenths of a person                              *)
(*   gdp_per_capita        1e-4 USD                                        *)
(*   growth rates          basis points (1e-4)                             *)
(*   modifiers, shares     percent (1e-2)                                  *)
(*   prices                1e-3 currency units                             *)
(*   market quantities     kilotonnes                                      *)
(*   prevalence rates      1e-6                                            *)
(*   nutrient intake       1e-3 of the nutrient's unit                     *)
(* Python dicts are functions with string domains, {} is EmptyDict, None   *)
(* is PyNone, float('nan') is NaN.                                         *)
(***************************************************************************)
EXTENDS Integers, Sequences, FiniteSets, TLC

VARIABLES
    output_dir,                  \* visualize.output_dir, the module-level plot directory
    threads,                     \* locals of the scenario runs started side by side
    heap,                        \* the dict objects BASE_CONFIG and SCENARIOS are made of
    exit_status,                 \* None while the script runs, then the status it exits with
    finished_runs,               \* history: the year records of each run that reached aggregation
    script,                      \* which entry script runs the batch
    pc,                          \* position of the single thread of control
    pending,                     \* scenarios the batch loop has not reached yet
    attempted,                   \* scenarios handed to run_simulation_scenario, in order
    batch_log,                   \* per-scenario success/failure lines the batch loop printed
    all_scenario_results,        \* name -> aggregated results of the scenarios that returned a truthy value
    files,                       \* files and directories written under results/
    full_comparison_df,          \* rows of the cross-scenario comparison table
    warnings,                    \* diagnostics printed by the comparison step
    scenario_name,               \* run_simulation_scenario: its arguments and locals
    config,
    nutrition_model,
    year,
    step,
    yearly_outputs,
    yearly_data,
    current_socioeconomic_state,
    current_health_state,
    calls,                       \* history: the model invocations of the current run
    run_status,
    retval,
    nutritional_outcomes_direct  \* result of a direct call of the nutrition model

vars == <<output_dir, threads, heap, exit_status, finished_runs, script,
          pc, pending, attempted, batch_log, all_scenario_results, files,
          full_comparison_df, warnings, scenario_name, config, nutrition_model, year,
          step, yearly_outputs, yearly_data, current_socioeconomic_state,
          current_health_state, calls, run_status, retval, nutritional_outcomes_direct>>

----------------------------------------------------------------------------
(* Python values *)

EmptyDict == <<>>
PyNone == [py_none |-> TRUE]
NaN == [missing |-> TRUE, value |-> 0]
Num(x) == [missing |-> FALSE, value |-> x]

\* dict.get(k, default)
Get(d, k, default) == IF k \in DOMAIN d THEN d[k] ELSE default

\* x is not None
NotNone(x) == x # PyNone

\* bool(x) of a value that is None or a dict
Truthy(x) == x # PyNone /\ x # EmptyDict

\* floor(x * bp / 10000) without leaving 32 bits
MulRate(x, bp) == (x \div 10000) * bp + ((x % 10000) * bp) \div 10000

Max(a, b) == IF a >= b THEN a ELSE b

Last(s) == s[Len(s)]

----------------------------------------------------------------------------
(* Bounds *)

\* Simulated horizon in years: END_YEAR - START_YEAR + 1 (11 in the source).
MaxYears == 3

\* How many direct calls of the nutrition model one instance receives.
MaxDirectCalls == 2

----------------------------------------------------------------------------
(* Scenario definitions *)

START_YEAR == 2025
END_YEAR == START_YEAR + MaxYears - 1

INITIAL_POPULATION == 1700000000
INITIAL_GDP_PER_CAPITA == 26000000
INITIAL_STUNTING_RATE == 280000
INITIAL_WASTING_RATE == 80000

BASE_CONFIG ==
    [simulation_name |-> "BD_FoodSecurity_Scenario_Baseline",
     start_year |-> START_YEAR,
     end_year |-> END_YEAR,
     initial_state |-> [population |-> INITIAL_POPULATION,
                        gdp_per_capita |-> INITIAL_GDP_PER_CAPITA,
                        stunting_rate |-> INITIAL_STUNTING_RATE,
                        wasting_rate |-> INITIAL_WASTING_RATE],
     parameters |->
        [agricultural_production |-> [yield_trends |-> "yield_trends"],
         climate_resilience |-> [temp_anomaly_trend |-> 300,
                                 precip_change_trend |-> -50,
                                 adaptation_effectiveness |-> 30],
         food_supply_chain |-> [transport_efficiency |-> 95],
         socioeconomic_dynamics |-> [population_growth_rate |-> 100,
                                     gdp_growth_rate |-> 650,
                                     income_elasticity_diet |-> 40],
         policy_interventions |-> [policy_scenario_active |-> "baseline",
                                   fertilizer_subsidy_level |-> 10,
                                   safety_net_coverage |-> 20],
         nutritional_outcomes |-> [health_access_improvement_rate |-> 100],
         market_dynamics |-> [world_prices |-> [rice |-> 450000, wheat |-> 350000]]]]

\* d with d[k1][k2][k3] replaced by v
Override3(d, k1, k2, k3, v) == [d EXCEPT ![k1][k2][k3] = v]

ScenarioNames ==
    <<"baseline", "high_climate_impact", "enhanced_adaptation", "policy_change_safety_net">>

SCENARIOS ==
    [n \in {ScenarioNames[i] : i \in 1..Len(ScenarioNames)} |->
        CASE n = "baseline" -> BASE_CONFIG
          [] n = "high_climate_impact" ->
                Override3(Override3([BASE_CONFIG EXCEPT !.simulation_name =
                                        "BD_FoodSecurity_Scenario_HighClimateImpact"],
                                    "parameters", "climate_resilience", "temp_anomaly_trend", 500),
                          "parameters", "climate_resilience", "precip_change_trend", -100)
          [] n = "enhanced_adaptation" ->
                Override3([BASE_CONFIG EXCEPT !.simulation_name =
                              "BD_FoodSecurity_Scenario_EnhancedAdaptation"],
                          "parameters", "climate_resilience", "adaptation_effectiveness", 60)
          [] OTHER ->
                Override3(Override3([BASE_CONFIG EXCEPT !.simulation_name =
                                        "BD_FoodSecurity_Scenario_PolicyChangeSafetyNet"],
                                    "parameters", "policy_interventions",
                                    "policy_scenario_active", "enhanced_safety_nets"),
                          "parameters", "policy_interventions", "safety_net_coverage", 40)]

----------------------------------------------------------------------------
(* The objects behind BASE_CONFIG and SCENARIOS.  A dict is an object with an *)
(* address; a key holds a leaf value or a reference to another dict.         *)

\* the places of BASE_CONFIG that hold a dict
DictPaths ==
    {<<>>, <<"initial_state">>, <<"parameters">>}
    \cup {<<"parameters", group>> : group \in DOMAIN BASE_CONFIG.parameters}
    \cup {<<"parameters", "market_dynamics", "world_prices">>}

Address(owner, path) == [copy |-> owner, path |-> path]

IsRef(cell) == "ref" \in DOMAIN cell

RECURSIVE Subtree(_, _)
Subtree(d, path) == IF path = <<>> THEN d ELSE Subtree(d[Head(path)], Tail(path))

\* the objects a dict display creates
DictDisplay(owner, tree) ==
    [a \in {Address(owner, path) : path \in DictPaths} |->
        [k \in DOMAIN Subtree(tree, a.path) |->
            IF Append(a.path, k) \in DictPaths
            THEN [ref |-> Address(owner, Append(a.path, k))]
            ELSE [leaf |-> Subtree(tree, Append(a.path, k))]]]

\* the nested value an object stands for
RECURSIVE Deref(_, _)
Deref(h, a) ==
    [k \in DOMAIN h[a] |-> IF IsRef(h[a][k]) THEN Deref(h, h[a][k].ref) ELSE h[a][k].leaf]

\* the objects reachable from a, each with the path that leads to it
RECURSIVE Reach(_, _, _)
Reach(h, a, path) ==
    {<<path, a>>}
    \cup UNION {Reach(h, h[a][k].ref, Append(path, k)) :
                   k \in {key \in DOMAIN h[a] : IsRef(h[a][key])}}

\* copy.copy: a new outer dict holding the same inner objects
shallowcopy(h, root, owner) ==
    [h |-> (Address(owner, <<>>) :> h[root]) @@ h, root |-> Address(owner, <<>>)]

\* copy.deepcopy: a new object for every dict reachable from root
deepcopy(h, root, owner) ==
    LET reached == Reach(h, root, <<>>)
        Original(path) == (CHOOSE r \in reached : r[1] = path)[2]
        copies ==
            [a \in {Address(owner, r[1]) : r \in reached} |->
                [k \in DOMAIN h[Original(a.path)] |->
                    IF IsRef(h[Original(a.path)][k])
                    THEN [ref |-> Address(owner, Append(a.path, k))]
                    ELSE h[Original(a.path)][k]]]
    IN  [h |-> copies @@ h, root |-> Address(owner, <<>>)]

\* the object root[k1]...[kn-1] of the subscription chain
RECURSIVE Resolve(_, _, _)
Resolve(h, a, path) ==
    IF path = <<>> THEN a ELSE Resolve(h, h[a][Head(path)].ref, Tail(path))

\* root[k1]...[kn] = v
setitem(h, root, path, v) ==
    LET target == Resolve(h, root, SubSeq(path, 1, Len(path) - 1))
    IN  [h EXCEPT ![target] = (Last(path) :> [leaf |-> v]) @@ h[target]]

\* SCENARIOS = {...}: the baseline entry is the object BASE_CONFIG itself
ScenarioRoots ==
    [n \in {ScenarioNames[i] : i \in 1 .. Len(ScenarioNames)} |->
        IF n = "baseline" THEN Address("BASE_CONFIG", <<>>) ELSE Address(n, <<>>)]

RECURSIVE CopiesMade(_, _)
CopiesMade(h, names) ==
    IF names = <<>> THEN h
    ELSE IF Head(names) = "baseline" THEN CopiesMade(h, Tail(names))
    ELSE CopiesMade(deepcopy(h, Address("BASE_CONFIG", <<>>), Head(names)).h, Tail(names))

\* the item assignments that follow the display of SCENARIOS
Overrides ==
    <<[scenario |-> "high_climate_impact", path |-> <<"simulation_name">>,
       value |-> "BD_FoodSecurity_Scenario_HighClimateImpact"],
      [scenario |-> "high_climate_impact",
       path |-> <<"parameters", "climate_resilience", "temp_anomaly_trend">>, value |-> 500],
      [scenario |-> "high_climate_impact",
       path |-> <<"parameters", "climate_resilience", "precip_change_trend">>,
       value |-> -100],
      [scenario |-> "enhanced_adaptation", path |-> <<"simulation_name">>,
       value |-> "BD_FoodSecurity_Scenario_EnhancedAdaptation"],
      [scenario |-> "enhanced_adaptation",
       path |-> <<"parameters", "climate_resilience", "adaptation_effectiveness">>,
       value |-> 60],
      [scenario |-> "policy_change_safety_net", path |-> <<"simulation_name">>,
       value |-> "BD_FoodSecurity_Scenario_PolicyChangeSafetyNet"],
      [scenario |-> "policy_change_safety_net",
       path |-> <<"parameters", "policy_interventions", "policy_scenario_active">>,
       value |-> "enhanced_safety_nets"],
      [scenario |-> "policy_change_safety_net",
       path |-> <<"parameters", "policy_interventions", "safety_net_coverage">>,
       value |-> 40]>>

RECURSIVE OverridesMade(_, _)
OverridesMade(h, todo) ==
    IF todo = <<>> THEN h
    ELSE OverridesMade(setitem(h, ScenarioRoots[Head(todo).scenario], Head(todo).path,
                               Head(todo).value),
                       Tail(todo))

\* the objects once the module has been imported
LoadedHeap ==
    OverridesMade(CopiesMade(DictDisplay("BASE_CONFIG", BASE_CONFIG), ScenarioNames),
                  Overrides)

----------------------------------------------------------------------------
(* PolicyInterventionsModel (policy_interventions.py) *)

\* __init__: the instance keeps four parameter groups and an empty scenario table;
\* load_policy_scenarios is never called by the runner.
PolicyInterventionsModel(cfg) ==
    [agri_policy_params |-> Get(cfg, "agri_policy_params", EmptyDict),
     social_policy_params |-> Get(cfg, "social_policy_params", EmptyDict),
     trade_policy_params |-> Get(cfg, "trade_policy_params", EmptyDict),
     infra_policy_params |-> Get(cfg, "infra_policy_params", EmptyDict),
     policy_scenarios |-> EmptyDict]

simulate_policy_impacts(self, yr, name, current_system_state) ==
    LET current_policies == IF name \notin DOMAIN self.policy_scenarios
                            THEN EmptyDict
                            ELSE self.policy_scenarios[name]
        agri == Get(current_policies, "agriculture", EmptyDict)
        social == Get(current_policies, "social_protection", EmptyDict)
        trade == Get(current_policies, "trade", EmptyDict)
        infra == Get(current_policies, "infrastructure", EmptyDict)
    IN  [year |-> yr,
         scenario |-> name,
         agricultural_policy_effects |->
            [input_cost_modifier |-> 100 - Get(agri, "input_subsidy_level", 0) * 5,
             production_incentive_modifier |-> 100 + Get(agri, "price_support_level", 0) * 2],
         social_protection_effects |->
            [safety_net_coverage_modifier |-> 100 + Get(social, "safety_net_expansion", 0) * 10,
             transfer_value_modifier |-> 100 + Get(social, "transfer_value_increase", 0)],
         trade_policy_effects |->
            [import_price_modifier |-> 100 + Get(trade, "import_tariff_rate", 0) * 10,
             export_volume_modifier |-> 100 - Get(trade, "export_restriction_level", 0)],
         infrastructure_policy_effects |->
            [storage_loss_modifier |-> 100 - Get(infra, "storage_investment_level", 0) * 5,
             transport_cost_modifier |-> 100 - Get(infra, "transport_investment_level", 0) * 8]]

----------------------------------------------------------------------------
(* ClimateResilienceModel (climate_resilience.py): every sub-step returns a *)
(* placeholder structure whose leaves are None, whatever it is given.       *)

simulate_climate_resilience(yr, agricultural_systems, socioeconomic_factors, governance_systems) ==
    [climate_conditions |->
        [temperature |-> PyNone, precipitation |-> PyNone,
         sea_level |-> PyNone, extreme_events |-> PyNone],
     agricultural_impacts |->
        [rice_production |-> [boro |-> PyNone, aus |-> PyNone, aman |-> PyNone],
         other_crops |-> PyNone, livestock |-> PyNone, fisheries |-> PyNone],
     adaptation_responses |->
        [rice_production |-> PyNone, other_crops |-> PyNone, livestock |-> PyNone,
         fisheries |-> PyNone, system_level |-> PyNone],
     net_impacts |->
        [rice_production |-> PyNone, other_crops |-> PyNone, livestock |-> PyNone,
         fisheries |-> PyNone, system_level |-> PyNone],
     resilience_indicators |->
        [robustness |-> PyNone, recovery |-> PyNone, adaptation |-> PyNone,
         transformation |-> PyNone, vulnerability |-> PyNone]]

----------------------------------------------------------------------------
(* SocioeconomicDynamicsModel (socioeconomic_dynamics.py) *)

SocioeconomicDynamicsModel(cfg) ==
    [population_params |-> Get(cfg, "population_params", EmptyDict),
     economic_params |-> Get(cfg, "economic_params", EmptyDict),
     income_params |-> Get(cfg, "income_params", EmptyDict),
     safety_net_params |-> Get(cfg, "safety_net_params", EmptyDict),
     livelihood_params |-> Get(cfg, "livelihood_params", EmptyDict)]

\* the default of 170e6 taken every year, whatever the current data say
PopulationFromDefault(self, current_population_data) ==
    LET growth_rate == Get(self.population_params, "annual_growth_rate", 100)
        new_pop == INITIAL_POPULATION + MulRate(INITIAL_POPULATION, growth_rate)
    IN  [total_population |-> new_pop,
         urban_population |-> MulRate(new_pop, 4000),
         rural_population |-> MulRate(new_pop, 6000)]

simulate_population_dynamics(self, current_population_data) ==
    LET growth_rate == Get(self.population_params, "annual_growth_rate", 100)
        last_pop == Get(current_population_data, "total_population", INITIAL_POPULATION)
        new_pop == last_pop + MulRate(last_pop, growth_rate)
    IN  [total_population |-> new_pop,
         urban_population |-> MulRate(new_pop, 4000),
         rural_population |-> MulRate(new_pop, 6000)]

simulate_economic_growth(self, current_economic_data) ==
    LET gdp_growth_rate == Get(self.economic_params, "gdp_growth_rate", 600)
        last_gdp_pc == Get(current_economic_data, "gdp_per_capita", 22000000)
    IN  [gdp_per_capita |-> last_gdp_pc + MulRate(last_gdp_pc, gdp_growth_rate),
         inflation_rate |-> Get(self.economic_params, "inflation_rate", 550)]

simulate_income_distribution(self, economic_data) ==
    LET gdp_per_capita == Get(economic_data, "gdp_per_capita", 22000000)
    IN  [gini_coefficient |-> Get(self.income_params, "gini_coefficient", 33),
         poverty_headcount_ratio |-> Max(100000, 250000 - (gdp_per_capita - 22000000) \div 50)]

simulate_social_safety_nets(self, governance_factors) ==
    LET base_coverage == Get(self.safety_net_params, "base_coverage", 25)
        policy_scaling == Get(governance_factors, "safety_net_investment_scale", 100)
    IN  [coverage_rate |-> (base_coverage * policy_scaling) \div 100,
         transfer_effectiveness |-> Get(self.safety_net_params, "effectiveness", 70)]

simulate_livelihoods(self, climate_impacts) ==
    LET agri_labor_shift ==
            IF "agri_labor_shift" \in DOMAIN climate_impacts
            THEN climate_impacts.agri_labor_shift
            ELSE IF "labor_impacts" \in DOMAIN climate_impacts
            THEN Get(climate_impacts.labor_impacts, "agri_labor_shift", 0)
            ELSE IF "agricultural_impacts" \in DOMAIN climate_impacts
            THEN Get(climate_impacts.agricultural_impacts, "labor_shift", 0)
            ELSE 0
        agri_share == 40 - agri_labor_shift
        services_share == 35 + agri_labor_shift
        total_share == agri_share + 25 + services_share
    IN  [livelihood_distribution |->
            [agriculture |-> (agri_share * 100) \div total_share,
             industry |-> 2500 \div total_share,
             services |-> (services_share * 100) \div total_share,
             remittances_dependency |-> Get(self.livelihood_params, "remittance_dependency", 10)]]

simulate_socioeconomic_factors(self, yr, current_state, governance_factors, climate_impacts) ==
    LET pop_data == Get(current_state, "population", EmptyDict)
        econ_data == Get(current_state, "economy", EmptyDict)
        population_results == simulate_population_dynamics(self, pop_data)
        economic_results == simulate_economic_growth(self, econ_data)
    IN  [year |-> yr,
         population |-> population_results,
         economy |-> economic_results,
         income_distribution |-> simulate_income_distribution(self, economic_results),
         social_safety_nets |-> simulate_social_safety_nets(self, governance_factors),
         livelihoods |-> simulate_livelihoods(self, climate_impacts)]

----------------------------------------------------------------------------
(* AgriculturalProductionModel (agricultural_production.py).  The rice      *)
(* sub-sector is computed; the other three sub-sector results and the sum   *)
(* over the four are carried as opaque values, no step of the year loop     *)
(* reads inside them.                                                       *)

rice_systems ==
    [boro |-> [base_yield_kg_ha |-> 4500, base_area_ha |-> 4900000],
     aus |-> [base_yield_kg_ha |-> 3000, base_area_ha |-> 1100000],
     aman |-> [base_yield_kg_ha |-> 3800, base_area_ha |-> 5500000]]

\* One rice type: yield * climate * input * technology factors, times the area, in
\* tonnes, less the post-harvest loss.  Factors are in percent.
rice_type_production(rice_type, climate_factors, input_availability, technology_adoption) ==
    LET p == rice_systems[rice_type]
        climate_impact_factor ==
            Max(10, 100 + Get(climate_factors, "temp_anomaly", 0) * (-5)
                        + Get(climate_factors, "rainfall_deviation", 0) * 10)
        water_effect == Get(input_availability, "water_ratio", 100) \div 2
        fert_effect == (Get(input_availability, "fertilizer_ratio", 100) * 3) \div 10
        input_factor == Max(10, 20 + water_effect + fert_effect)
        modern_adoption == Get(technology_adoption, "modern_adoption", 0)
        hybrid_adoption == Get(technology_adoption, "hybrid_adoption", 0)
        traditional_adoption == Max(0, 100 - modern_adoption - hybrid_adoption)
        tech_factor == (traditional_adoption * 100 + modern_adoption * 120
                            + hybrid_adoption * 150) \div 100
        adjusted_yield ==
            Max(0, ((((((p.base_yield_kg_ha * climate_impact_factor) \div 100)
                        * input_factor) \div 100) * tech_factor) \div 100))
        type_production == adjusted_yield * (p.base_area_ha \div 1000)
    IN  (type_production \div 10) * 9

simulate_rice_production(yr, climate_factors, input_availability, technology_adoption) ==
    LET prod == [t \in {"boro", "aus", "aman"} |->
                    rice_type_production(t, climate_factors, input_availability,
                                         technology_adoption)]
    IN  [boro |-> prod["boro"], aus |-> prod["aus"], aman |-> prod["aman"],
         total_production |-> prod["boro"] + prod["aus"] + prod["aman"]]

simulate_production(yr, climate_resilience_output, input_availability, technology_adoption, market_prices) ==
    [year |-> yr,
     rice |-> simulate_rice_production(
                yr, Get(climate_resilience_output, "agricultural_impacts", EmptyDict),
                input_availability, technology_adoption),
     diversified_crops |-> "diversified_crops_production",
     aquaculture_fisheries |-> "aquaculture_fisheries_production",
     livestock_poultry |-> "livestock_poultry_production",
     total_food_estimate |-> "total_food_estimate"]

----------------------------------------------------------------------------
(* FoodSupplyChainModel (food_supply_chain.py): placeholder structures      *)
(* whose leaves are None, whatever the production volumes are.              *)

simulate_supply_chains(yr, production_volumes) ==
    [post_harvest_outcomes |->
        [losses |-> PyNone, processed_volumes |-> PyNone,
         storage_utilization |-> PyNone, quality_maintenance |-> PyNone],
     market_outcomes |-> PyNone,
     actor_behaviors |-> PyNone,
     efficiency_metrics |-> PyNone,
     food_availability |-> [national |-> PyNone, regional |-> PyNone, seasonal |-> PyNone]]

----------------------------------------------------------------------------
(* Exceptions: an operator that models code which can raise returns Raised  *)
(* in place of a value.                                                      *)

Raised == [raised |-> TRUE]

----------------------------------------------------------------------------
(* MarketDynamicsModel (market_dynamics.py) *)

MarketDynamicsModel(cfg) ==
    [supply_params |-> Get(cfg, "supply_params", EmptyDict),
     demand_params |-> Get(cfg, "demand_params", EmptyDict),
     price_params |-> Get(cfg, "price_params", EmptyDict),
     trade_params |-> Get(cfg, "trade_params", EmptyDict)]

commodities == {"rice", "wheat", "pulses", "vegetables", "fish", "meat", "milk", "eggs"}

base_demand_per_cap ==
    [rice |-> 150, wheat |-> 25, pulses |-> 8, vegetables |-> 65,
     fish |-> 25, meat |-> 12, milk |-> 35, eggs |-> 6]

base_prices ==
    [rice |-> 50, wheat |-> 40, pulses |-> 100, vegetables |-> 40,
     fish |-> 250, meat |-> 600, milk |-> 80, eggs |-> 120]

simulate_supply(production_data, policy_effects) ==
    LET total_food == Get(production_data, "total_food", EmptyDict)
        cereals == Get(total_food, "cereals", EmptyDict)
        meat == Get(total_food, "meat", EmptyDict)
        other_livestock == Get(total_food, "other_livestock", EmptyDict)
        export_mod == Get(Get(policy_effects, "trade_policy_effects", EmptyDict),
                          "export_volume_modifier", 100)
        Mod(x) == (x * export_mod) \div 100
    IN  [rice |-> Mod(Get(cereals, "rice", 0)),
         wheat |-> Mod(Get(cereals, "wheat", 0)),
         pulses |-> Mod(Get(total_food, "pulses", 0)),
         fish |-> Mod(Get(Get(total_food, "fish", EmptyDict), "total", 0)),
         meat |-> Get(meat, "beef_mutton", 0) + Mod(Get(meat, "poultry", 0)),
         milk |-> Mod(Get(other_livestock, "milk", 0)),
         eggs |-> Mod(Get(other_livestock, "eggs", 0))]

simulate_demand(self, socioeconomic_state, policy_effects) ==
    LET population == Get(Get(socioeconomic_state, "population", EmptyDict),
                          "total_population", INITIAL_POPULATION)
        gdp_pc == Get(Get(socioeconomic_state, "economy", EmptyDict),
                      "gdp_per_capita", 22000000)
        \* 1 + 0.5 * (gdp_pc - 2000) / 2000, in basis points
        income_effect == 10000 + (gdp_pc - 20000000) \div 4000
        \* transfer_value_modifier * 0.1 + 0.9, in thousandths
        demand_mod == Get(Get(policy_effects, "social_protection_effects", EmptyDict),
                          "transfer_value_modifier", 100) + 900
    IN  [c \in commodities |->
            (MulRate((base_demand_per_cap[c] * (population \div 10000)) \div 1000,
                     income_effect) * demand_mod) \div 1000]

simulate_price_formation(self, market_supply, market_demand, policy_effects) ==
    LET trade_price_mod == Get(Get(policy_effects, "trade_policy_effects", EmptyDict),
                               "import_price_modifier", 100)
        Retail(c) ==
            LET supply == Get(market_supply, c, 0)
                demand == Get(market_demand, c, 0)
                \* 1 + gap_ratio / (-0.5) with gap_ratio = (d - s) / ((s + d) / 2)
                price_change_factor ==
                    IF supply + demand > 0
                    THEN ((5 * supply - 3 * demand) * 10000) \div (supply + demand)
                    \* a commodity without a supply entry counts as 1e-6 against no demand
                    ELSE IF c \notin DOMAIN market_supply THEN 50000 ELSE 10000
            IN  Max((((base_prices[c] * price_change_factor) \div 10) * trade_price_mod) \div 100,
                    1000)
        retail == [c \in commodities |-> Retail(c)]
        wholesale == [c \in commodities |-> (retail[c] * 85) \div 100]
    IN  [retail |-> retail,
         wholesale |-> wholesale,
         producer |-> [c \in commodities |-> (wholesale[c] * 70) \div 100]]

\* The two branches that would record a flow read market_demand and market_supply,
\* names that are not bound in this function: entering either raises NameError.
simulate_trade_flows(domestic_prices, world_prices, trade_policies) ==
    LET Flow(c) ==
            LET domestic_price == Get(Get(domestic_prices, "producer", EmptyDict), c, 0)
                world_price == Get(world_prices, c, (domestic_price * 12) \div 10)
                import_cost == (Get(trade_policies, "import_tariff_rate", 0) * world_price) \div 100
                                + Get(trade_policies, "import_transport_cost", 5000)
                export_cost == (Get(trade_policies, "export_subsidy_rate", 0) * domestic_price) \div 100
                                + Get(trade_policies, "export_transport_cost", 6000)
            IN  \/ world_price + import_cost < domestic_price
                \/ domestic_price < world_price - export_cost
    IN  IF \E c \in commodities : Flow(c)
        THEN Raised
        ELSE [imports |-> EmptyDict, exports |-> EmptyDict]

simulate_market_dynamics(self, yr, production_data, socioeconomic_state, policy_effects) ==
    LET market_supply == simulate_supply(production_data, policy_effects)
        market_demand == simulate_demand(self, socioeconomic_state, policy_effects)
        market_prices == simulate_price_formation(self, market_supply, market_demand,
                                                  policy_effects)
        trade_flows == simulate_trade_flows(
                            market_prices, Get(self.trade_params, "world_prices", EmptyDict),
                            Get(policy_effects, "trade_policy_effects", EmptyDict))
    IN  IF trade_flows = Raised
        THEN Raised
        ELSE [year |-> yr,
              market_supply |-> market_supply,
              market_demand |-> market_demand,
              prices |-> market_prices,
              trade_flows |-> trade_flows]

----------------------------------------------------------------------------
(* pandas and list values held by the nutrition model's history *)

PyList(values) == [kind |-> "list", values |-> values]

\* pd.Series built from a list: the index is the RangeIndex 0..n-1
Series(values) == [kind |-> "Series", index |-> 0 .. (Len(values) - 1), values |-> values]

DataFrame(columns) == [kind |-> "DataFrame", columns |-> columns]

Ok(v) == [raised |-> FALSE, value |-> v]

\* obj.get(k, default) of a dict or of a DataFrame (column lookup)
ObjGet(obj, k, default) ==
    IF "kind" \in DOMAIN obj /\ obj.kind = "DataFrame"
    THEN Get(obj.columns, k, default)
    ELSE Get(obj, k, default)

\* x[-1]: the last element of a list (IndexError when empty); on a Series with an
\* integer index the key is a label, and -1 is no label of a RangeIndex (KeyError).
SubscriptMinusOne(x) ==
    IF x.kind = "list"
    THEN IF Len(x.values) > 0 THEN Ok(Last(x.values)) ELSE Raised
    ELSE IF -1 \in x.index THEN Ok(x.values[Len(x.values)]) ELSE Raised

RECURSIVE SumSet(_, _)
SumSet(S, f) ==
    IF S = {} THEN 0
    ELSE LET x == CHOOSE y \in S : TRUE
         IN  f[x] + SumSet(S \ {x}, f)

----------------------------------------------------------------------------
(* NutritionalOutcomesModel (nutritional_outcomes.py) *)

\* per 100 g, in tenths of the nutrient's unit
load_food_composition_data ==
    [rice |-> [energy_kcal |-> 3600, protein_g |-> 70, iron_mg |-> 8, zinc_mg |-> 11],
     wheat |-> [energy_kcal |-> 3400, protein_g |-> 120, iron_mg |-> 35, zinc_mg |-> 27],
     pulses |-> [energy_kcal |-> 3450, protein_g |-> 220, iron_mg |-> 60, zinc_mg |-> 30],
     vegetables |-> [energy_kcal |-> 300, protein_g |-> 15, iron_mg |-> 10, zinc_mg |-> 3,
                     vitA_mcg |-> 3000],
     milk |-> [energy_kcal |-> 600, protein_g |-> 33, calcium_mg |-> 1200],
     eggs |-> [energy_kcal |-> 1450, protein_g |-> 125, iron_mg |-> 18, vitA_mcg |-> 1400],
     fish |-> [energy_kcal |-> 1100, protein_g |-> 200, zinc_mg |-> 6, omega3_g |-> 10],
     meat |-> [energy_kcal |-> 2000, protein_g |-> 250, iron_mg |-> 25, zinc_mg |-> 40]]

NutritionalOutcomesModel(cfg) ==
    [dietary_params |-> Get(cfg, "dietary_params", EmptyDict),
     status_params |-> Get(cfg, "status_params", EmptyDict),
     micronutrient_params |-> Get(cfg, "micronutrient_params", EmptyDict),
     health_access_params |-> Get(cfg, "health_access_params", EmptyDict),
     historical_nutrition_data |-> EmptyDict,
     food_composition |-> load_food_composition_data]

load_historical_data(self) ==
    [self EXCEPT !.historical_nutrition_data =
        [stunting_prevalence |->
            DataFrame([year |-> Series(<<2020, 2021, 2022>>),
                       rate |-> Series(<<310000, 300000, 290000>>)]),
         wasting_prevalence |->
            DataFrame([year |-> Series(<<2020, 2021, 2022>>),
                       rate |-> Series(<<80000, 80000, 75000>>)]),
         anemia_prevalence |->
            DataFrame([year |-> Series(<<2020, 2021, 2022>>),
                       rate |-> Series(<<400000, 390000, 380000>>)])]]

\* kg per person and year times the consumption ratio in percent (default 0.9);
\* the ratio of a food is keyed '<food>_consumption_ratio' in dietary_params.
estimate_food_consumption(self, food_availability) ==
    [food_group \in DOMAIN food_availability |->
        food_availability[food_group] * Get(self.dietary_params, food_group, 90)]

tracked_nutrients ==
    {"energy_kcal", "protein_g", "iron_mg", "zinc_mg", "vitA_mcg", "calcium_mg"}

\* qty * (1000 / 365) / 100 * value summed over the foods that have a composition
calculate_nutrient_intake(self, food_consumption) ==
    LET foods == DOMAIN food_consumption \cap DOMAIN self.food_composition
    IN  [nutrient \in tracked_nutrients |->
            (SumSet(foods, [food \in foods |->
                        food_consumption[food]
                            * Get(self.food_composition[food], nutrient, 0)]) * 2) \div 73]

default_nutritional_status ==
    [stunting_prevalence |-> 280000,
     wasting_prevalence |-> 70000,
     underweight_prevalence |-> 150000,
     micronutrient_deficiency |->
        [ida_prevalence |-> 370000, vad_prevalence |-> 200000, znd_prevalence |-> 300000]]

\* intake adequacy against the example thresholds, and the change it selects
EnergyAdequate(nutrient_intake) == Get(nutrient_intake, "energy_kcal", 0) > 2100000
ProteinAdequate(nutrient_intake) == Get(nutrient_intake, "protein_g", 0) > 50000
IronAdequate(nutrient_intake) == Get(nutrient_intake, "iron_mg", 0) > 10000

StuntingChange(nutrient_intake) ==
    IF EnergyAdequate(nutrient_intake) /\ ProteinAdequate(nutrient_intake)
    THEN -5000 ELSE 2000

WastingChange(nutrient_intake) == IF EnergyAdequate(nutrient_intake) THEN -3000 ELSE 1000

AnemiaChange(nutrient_intake) == IF IronAdequate(nutrient_intake) THEN -10000 ELSE 5000

\* 1.0 - coverage * 0.1 in thousandths, coverage in percent (default 0.5)
HealthAccessModifier(self) == 1000 - Get(self.health_access_params, "coverage", 50)

UnflooredPrevalence(prev, change, health_access_modifier) ==
    prev + (change * health_access_modifier) \div 1000

\* max(0, prev + change * health_access_modifier)
NewPrevalence(prev, change, health_access_modifier) ==
    Max(0, prev + (change * health_access_modifier) \div 1000)

\* The three previous values are read with [-1]; when one of the reads raises, the
\* except clause returns the default status.
estimate_nutritional_status(self, nutrient_intake) ==
    LET hist == self.historical_nutrition_data
        prev_stunting == SubscriptMinusOne(
            ObjGet(Get(hist, "stunting_prevalence", EmptyDict), "rate", PyList(<<280000>>)))
        prev_wasting == SubscriptMinusOne(
            ObjGet(Get(hist, "wasting_prevalence", EmptyDict), "rate", PyList(<<70000>>)))
        prev_anemia == SubscriptMinusOne(
            ObjGet(Get(hist, "anemia_prevalence", EmptyDict), "rate", PyList(<<370000>>)))
        new_stunting == NewPrevalence(prev_stunting.value, StuntingChange(nutrient_intake),
                                      HealthAccessModifier(self))
        new_wasting == NewPrevalence(prev_wasting.value, WastingChange(nutrient_intake),
                                     HealthAccessModifier(self))
        new_anemia == NewPrevalence(prev_anemia.value, AnemiaChange(nutrient_intake),
                                    HealthAccessModifier(self))
    IN  IF prev_stunting.raised \/ prev_wasting.raised \/ prev_anemia.raised
        THEN default_nutritional_status
        ELSE [stunting_prevalence |-> new_stunting,
              wasting_prevalence |-> new_wasting,
              underweight_prevalence |-> (new_stunting + new_wasting) \div 2,
              micronutrient_deficiency |->
                 [ida_prevalence |-> new_anemia,
                  vad_prevalence |-> 200000,
                  znd_prevalence |-> 300000]]

default_food_availability ==
    [rice |-> 150, wheat |-> 20, pulses |-> 8, vegetables |-> 60,
     milk |-> 30, eggs |-> 5, fish |-> 25, meat |-> 10]

simulate_nutritional_outcomes(self, yr, food_availability, market_prices, socioeconomic_state, health_state) ==
    LET given == IF food_availability = PyNone THEN EmptyDict ELSE food_availability
        availability == IF given = EmptyDict THEN default_food_availability ELSE given
        consumption_per_capita == estimate_food_consumption(self, availability)
        nutrient_intake == calculate_nutrient_intake(self, consumption_per_capita)
    IN  \* socioeconomic_state.get raises on a value that is no mapping
        IF socioeconomic_state = PyNone
        THEN [year |-> yr,
              estimated_per_capita_consumption_kg |->
                  [rice |-> 14200, wheat |-> 1900, pulses |-> 800, vegetables |-> 5700,
                   milk |-> 2800, eggs |-> 500, fish |-> 2400, meat |-> 900],
              average_nutrient_intake_per_capita_day |->
                  [energy_kcal |-> 2200000, protein_g |-> 55000, iron_mg |-> 12000,
                   zinc_mg |-> 8000, vitA_mcg |-> 600000, calcium_mg |-> 700000],
              nutritional_status_indicators |-> default_nutritional_status]
        ELSE [year |-> yr,
              estimated_per_capita_consumption_kg |-> consumption_per_capita,
              average_nutrient_intake_per_capita_day |-> nutrient_intake,
              nutritional_status_indicators |->
                  estimate_nutritional_status(self, nutrient_intake)]

----------------------------------------------------------------------------
(* run_simulation_scenario: set-up and the year loop *)

Parameters(cfg, group) == Get(cfg.parameters, group, EmptyDict)

policy_model == PolicyInterventionsModel(Parameters(config, "policy_interventions"))
\* an instance whose population growth follows the safety net coverage of the
\* policy_interventions group
SocioModelReadingSafetyNet ==
    [SocioeconomicDynamicsModel(Parameters(config, "socioeconomic_dynamics"))
        EXCEPT !.population_params =
            [annual_growth_rate |->
                100 + Get(Parameters(config, "policy_interventions"),
                          "safety_net_coverage", 0)]]

socio_model == SocioeconomicDynamicsModel(Parameters(config, "socioeconomic_dynamics"))
market_model == MarketDynamicsModel(Parameters(config, "market_dynamics"))

\* the state dict kept at module level: a later run starts from the last state
StateLeftByLastRun(initial_state) ==
    IF current_socioeconomic_state # EmptyDict THEN current_socioeconomic_state
    ELSE [population |->
             [total_population |-> Get(initial_state, "population", INITIAL_POPULATION)],
          economy |->
             [gdp_per_capita |->
                 Get(initial_state, "gdp_per_capita", INITIAL_GDP_PER_CAPITA)],
          income_distribution |-> [gini_coefficient |-> 32]]

InitialSocioeconomicState(initial_state) ==
    [population |->
        [total_population |-> Get(initial_state, "population", INITIAL_POPULATION)],
     economy |->
        [gdp_per_capita |-> Get(initial_state, "gdp_per_capita", INITIAL_GDP_PER_CAPITA)],
     income_distribution |-> [gini_coefficient |-> 32]]

InitialHealthState == [sanitation_coverage |-> 80, disease_burden_index |-> 100]

\* visualize.set_output_dir(os.path.join(results_dir, 'plots')) at import time
DefaultOutputDir == <<"plots">>

ResultsDirectories(name) == {<<name>>, <<name, "plots">>}

YearRangeExclusive(start_year, end_year) == start_year .. (end_year - 1)

\* range(start_year, end_year + 1)
YearRange(start_year, end_year) == start_year .. end_year

SkipAYear(y) == y + 2

\* the next value the for loop binds to year
NextInRange(y) == y + 1

OldestRecord(outputs) == outputs[1]

\* results['yearly_outputs'][-1]
PrevRecord(outputs) == Last(outputs)

\* results['yearly_outputs'][-1][key] if results['yearly_outputs'] else {}
PrevOutput(outputs, key) ==
    IF outputs # <<>> THEN PrevRecord(outputs)[key] ELSE EmptyDict

\* d[k1][k2]...: the value at the end of the path, a KeyError if a key is absent
RECURSIVE Subscript(_, _)
Subscript(d, path) ==
    IF path = <<>> THEN d
    ELSE IF Head(path) \notin DOMAIN d THEN Raised
    ELSE Subscript(d[Head(path)], Tail(path))

\* the record d without the key the path leads to
RECURSIVE DropPath(_, _)
DropPath(d, path) ==
    IF path = <<>> THEN d
    ELSE IF Len(path) = 1 THEN [k \in DOMAIN d \ {Head(path)} |-> d[k]]
    ELSE [k \in DOMAIN d |-> IF k = Head(path) THEN DropPath(d[k], Tail(path)) ELSE d[k]]

PrevProducerPrices(outputs) ==
    IF outputs # <<>>
    THEN Subscript(PrevRecord(outputs), <<"market_state", "prices", "producer">>)
    ELSE EmptyDict

KeepCarriedState(carried, returned) == carried

\* current_socioeconomic_state = socio_model.simulate_socioeconomic_factors(...)
CarriedAfterSocio(carried, returned) == returned

SocioAfterMarket ==
    <<"policy", "climate", "agri", "fsc", "market", "socio", "nutrition">>

AgriBeforeSocio ==
    <<"policy", "climate", "agri", "socio", "fsc", "market", "nutrition">>

\* the order of the statements in the body of the year loop
ModelExecutionOrder ==
    <<"policy", "climate", "socio", "agri", "fsc", "market", "nutrition">>

ContinueWithNextYear == "loop"

\* where control goes from the except clause of the year loop: return None
AfterException == "return"

\* parameters = config.get('parameters') or {}: anything falsy read as no parameters
SetupIgnoringParameters(cfg, makedirs_fails) ==
    IF ~({"start_year", "end_year", "parameters", "initial_state"} \subseteq DOMAIN cfg)
    THEN "raised"
    ELSE IF makedirs_fails
    THEN IF script = "run_full_simulation" THEN "setup_failed" ELSE "raised"
    ELSE "running"

\* How the set-up of run_simulation_scenario ends: a KeyError of the four
\* subscriptions leaves the function; the AttributeError of parameters.get on
\* something that is no mapping is caught and None returned; an OSError of
\* os.makedirs is caught in run_full_simulation.py only.
SetupOutcome(cfg, makedirs_fails) ==
    IF ~({"start_year", "end_year", "parameters", "initial_state"} \subseteq DOMAIN cfg)
    THEN "raised"
    ELSE IF cfg.parameters = PyNone
    THEN "setup_failed"
    ELSE IF makedirs_fails
    THEN IF script = "run_full_simulation" THEN "setup_failed" ELSE "raised"
    ELSE "running"

StartScenario ==
    /\ pc = "batch"
    /\ pending # <<>>
    /\ LET name == Head(pending)
           cfg == Deref(heap, ScenarioRoots[name])
           models_built == SetupOutcome(cfg, FALSE) = "running"
       IN  /\ attempted' = Append(attempted, name)
           /\ scenario_name' = name
           /\ config' = cfg
           /\ nutrition_model' =
                 IF models_built
                 THEN load_historical_data(
                          NutritionalOutcomesModel(Parameters(cfg, "nutritional_outcomes")))
                 ELSE EmptyDict
           /\ yearly_outputs' = <<>>
           /\ yearly_data' = EmptyDict
           /\ calls' = <<>>
           /\ current_socioeconomic_state' =
                 IF models_built THEN InitialSocioeconomicState(cfg.initial_state)
                 ELSE EmptyDict
           /\ current_health_state' = InitialHealthState
           /\ year' = IF models_built THEN cfg.start_year - 1 ELSE 0
           /\ step' = 1
           /\ retval' = PyNone
           /\ \E makedirs_fails \in BOOLEAN :
                LET outcome == SetupOutcome(cfg, makedirs_fails)
                IN  /\ run_status' = outcome
                    /\ pc' = IF outcome = "running" THEN "loop" ELSE "return"
                    /\ files' = IF outcome = "running"
                                THEN files \cup ResultsDirectories(name) ELSE files
                    \* run_simulation.py: visualize.set_output_dir(plots_path)
                    /\ output_dir' = IF outcome = "running" /\ script = "run_simulation"
                                     THEN <<name, "plots">> ELSE output_dir
    /\ UNCHANGED <<threads, heap, exit_status, finished_runs, script, pending, batch_log,
                   all_scenario_results, full_comparison_df, warnings,
                   nutritional_outcomes_direct>>

NextYear ==
    /\ pc = "loop"
    /\ IF NextInRange(year) \in YearRange(config.start_year, config.end_year)
       THEN /\ year' = NextInRange(year)
            /\ yearly_data' = [year |-> NextInRange(year)]
            /\ step' = 1
            /\ pc' = "year"
       ELSE /\ pc' = "aggregate"
            /\ UNCHANGED <<year, yearly_data, step>>
    /\ UNCHANGED <<output_dir, threads, heap, exit_status, finished_runs, script, pending, attempted, batch_log, all_scenario_results, files,
                   full_comparison_df, warnings, scenario_name, config, nutrition_model,
                   yearly_outputs, current_socioeconomic_state, current_health_state,
                   calls, run_status, retval, nutritional_outcomes_direct>>

\* a dict into which the model it is handed to stores the relative price keys
FlattenedInPlace(argument) == [relative_price_rice |-> 100] @@ argument

\* What a dict handed to a model as an argument holds when the call is over.
\* No model writes into its arguments: simulate_production builds
\* flattened_market_prices as a dict of its own, or passes market_prices on
\* without storing a key in it.
ArgumentAfterCall(argument) == argument

\* yearly_outputs when a model has been handed the part of the last record
\* the path leads to
RECURSIVE HandedTo(_, _)
HandedTo(d, path) ==
    IF path = <<>> THEN ArgumentAfterCall(d)
    ELSE [d EXCEPT ![Head(path)] = HandedTo(@, Tail(path))]

OutputsAfterCall(outputs, paths) ==
    IF outputs = <<>> THEN outputs
    ELSE [outputs EXCEPT ![Len(outputs)] =
             LET RECURSIVE Each(_, _)
                 Each(record, todo) ==
                     IF todo = {} THEN record
                     ELSE LET path == CHOOSE q \in todo : TRUE
                          IN  Each(HandedTo(record, path), todo \ {path})
             IN  Each(@, paths)]

\* One model invocation in the loop body.  The call is recorded with its arguments.
\* If it returns, result is stored under key in yearly_data and the carried state
\* becomes carried; if it raises (any exception, of the model or of the prints
\* around it), the except clause of the loop prints and returns None.
Invoke(call, result, key, stored, carried, outputs) ==
    /\ \/ /\ result # Raised
          /\ calls' = Append(calls, call @@ [raised |-> FALSE, ret |-> result])
          /\ yearly_data' = (key :> stored) @@ yearly_data
          /\ current_socioeconomic_state' = carried
          /\ step' = step + 1
          /\ pc' = IF step = Len(ModelExecutionOrder) THEN "append" ELSE "year"
          /\ UNCHANGED <<retval, run_status>>
       \/ /\ calls' = Append(calls, call @@ [raised |-> TRUE])
          /\ retval' = PyNone
          /\ run_status' = "aborted"
          /\ pc' = AfterException
          /\ UNCHANGED <<yearly_data, current_socioeconomic_state, step>>
    /\ yearly_outputs' = outputs
    /\ UNCHANGED <<output_dir, threads, heap, exit_status, finished_runs, script, pending, attempted, batch_log, all_scenario_results, files,
                   full_comparison_df, warnings, scenario_name, config, nutrition_model,
                   year, current_health_state,
                   nutritional_outcomes_direct>>

Running(model) == pc = "year" /\ ModelExecutionOrder[step] = model

\* The policy step; the model's output lacks the key at path (<<>>: lacks none).
PolicyInterventionsLacking(path) ==
    /\ Running("policy")
    /\ LET system_state_for_policy ==
               [socioeconomic |-> current_socioeconomic_state,
                agricultural_production |-> PrevOutput(yearly_outputs, "production_output"),
                market_dynamics |-> PrevOutput(yearly_outputs, "market_state"),
                food_supply_chain |-> PrevOutput(yearly_outputs, "supply_chain_output")]
           policy_impacts_for_year ==
               DropPath(simulate_policy_impacts(policy_model, year, scenario_name,
                                                system_state_for_policy), path)
       IN  Invoke([model |-> "policy", year |-> year,
                   current_system_state |-> system_state_for_policy],
                  policy_impacts_for_year, "policy_impacts", policy_impacts_for_year,
                  current_socioeconomic_state,
                  OutputsAfterCall(yearly_outputs, {<<"production_output">>,
                                                    <<"market_state">>,
                                                    <<"supply_chain_output">>}))

PolicyInterventions == PolicyInterventionsLacking(<<>>)

ClimateSimulation ==
    /\ Running("climate")
    /\ LET prev_agri_state == PrevOutput(yearly_outputs, "production_output")
           climate_resilience_output ==
               simulate_climate_resilience(year, prev_agri_state,
                                           current_socioeconomic_state,
                                           yearly_data.policy_impacts)
       IN  Invoke([model |-> "climate", year |-> year,
                   agricultural_systems |-> prev_agri_state,
                   socioeconomic_factors |-> current_socioeconomic_state,
                   governance_systems |-> yearly_data.policy_impacts],
                  climate_resilience_output, "climate_resilience_output",
                  climate_resilience_output, current_socioeconomic_state,
                  OutputsAfterCall(yearly_outputs, {<<"production_output">>}))

\* yearly_data['socioeconomic_state'] is a deep copy of the carried state after the call
SocioeconomicDynamicsLacking(path) ==
    /\ Running("socio")
    /\ LET returned ==
               DropPath(simulate_socioeconomic_factors(
                            socio_model, year, current_socioeconomic_state,
                            yearly_data.policy_impacts,
                            yearly_data.climate_resilience_output), path)
           carried == CarriedAfterSocio(current_socioeconomic_state, returned)
       IN  Invoke([model |-> "socio", year |-> year,
                   current_state |-> current_socioeconomic_state,
                   governance_factors |-> yearly_data.policy_impacts,
                   climate_impacts |-> yearly_data.climate_resilience_output],
                  returned, "socioeconomic_state", carried, carried, yearly_outputs)

SocioeconomicDynamics == SocioeconomicDynamicsLacking(<<>>)

AgriculturalProduction ==
    /\ Running("agri")
    /\ LET input_availability == [fertilizer_access |-> 90, irrigation_coverage |-> 60]
           technology_adoption == [improved_seeds_rate |-> 70]
           prev_market_prices == PrevProducerPrices(yearly_outputs)
           production_output ==
               simulate_production(year, yearly_data.climate_resilience_output,
                                   input_availability, technology_adoption,
                                   prev_market_prices)
       IN  IF prev_market_prices = Raised
           THEN Invoke([model |-> "agri", year |-> year,
                        key_error |-> <<"market_state", "prices", "producer">>],
                       Raised, "production_output", Raised, current_socioeconomic_state, yearly_outputs)
           ELSE Invoke([model |-> "agri", year |-> year,
                        climate_resilience_output |-> yearly_data.climate_resilience_output,
                        market_prices |-> prev_market_prices],
                       production_output, "production_output", production_output,
                       current_socioeconomic_state,
                       OutputsAfterCall(yearly_outputs,
                                        {<<"market_state", "prices", "producer">>}))

FoodSupplyChain ==
    /\ Running("fsc")
    /\ LET supply_chain_output == simulate_supply_chains(year, yearly_data.production_output)
       IN  Invoke([model |-> "fsc", year |-> year,
                   production_volumes |-> yearly_data.production_output],
                  supply_chain_output, "supply_chain_output", supply_chain_output,
                  current_socioeconomic_state, yearly_outputs)

MarketDynamicsLacking(path) ==
    /\ Running("market")
    /\ LET policy_effects_for_market ==
               [trade_policy_effects |->
                    Get(yearly_data.policy_impacts, "trade_policy_effects", EmptyDict),
                social_protection_effects |->
                    Get(yearly_data.policy_impacts, "social_protection_effects", EmptyDict)]
           returned ==
               simulate_market_dynamics(market_model, year, yearly_data.supply_chain_output,
                                        current_socioeconomic_state,
                                        policy_effects_for_market)
           market_state == IF returned = Raised THEN Raised ELSE DropPath(returned, path)
       IN  Invoke([model |-> "market", year |-> year,
                   production_data |-> yearly_data.supply_chain_output,
                   socioeconomic_state |-> current_socioeconomic_state,
                   policy_effects |-> policy_effects_for_market],
                  market_state, "market_state", market_state,
                  current_socioeconomic_state, yearly_outputs)

MarketDynamics == MarketDynamicsLacking(<<>>)

\* (v / population) * 1000 if population > 0 else 0, population in tenths of a person
PerCapita(v, population) == IF population > 0 THEN (v * 10000) \div population ELSE 0

NutritionalOutcomes ==
    /\ Running("nutrition")
    /\ LET market_state == yearly_data.market_state
           food_availability_nutrition == Get(market_state, "market_supply", EmptyDict)
           population == Subscript(current_socioeconomic_state,
                                   <<"population", "total_population">>)
           food_availability_nutrition_pc ==
               [k \in DOMAIN food_availability_nutrition |->
                    PerCapita(food_availability_nutrition[k], population)]
           market_prices == Get(Get(market_state, "prices", EmptyDict), "retail", EmptyDict)
           nutritional_outcomes ==
               simulate_nutritional_outcomes(nutrition_model, year,
                                             food_availability_nutrition_pc, market_prices,
                                             current_socioeconomic_state,
                                             current_health_state)
       IN  IF ~("population" \in DOMAIN current_socioeconomic_state
                 /\ "total_population" \in DOMAIN current_socioeconomic_state.population)
           THEN Invoke([model |-> "nutrition", year |-> year,
                        key_error |-> <<"population", "total_population">>],
                       Raised, "nutritional_outcomes", Raised,
                       current_socioeconomic_state, yearly_outputs)
           ELSE Invoke([model |-> "nutrition", year |-> year,
                        food_availability |-> food_availability_nutrition_pc,
                        market_prices |-> market_prices,
                        socioeconomic_state |-> current_socioeconomic_state,
                        health_state |-> current_health_state,
                        population |-> population],
                       nutritional_outcomes, "nutritional_outcomes", nutritional_outcomes,
                       current_socioeconomic_state, yearly_outputs)

\* results['yearly_outputs'].append(yearly_data)
AppendYear ==
    /\ pc = "append"
    /\ yearly_outputs' = Append(yearly_outputs, yearly_data)
    /\ pc' = "loop"
    /\ UNCHANGED <<output_dir, threads, heap, exit_status, finished_runs, script, pending, attempted, batch_log, all_scenario_results, files,
                   full_comparison_df, warnings, scenario_name, config, nutrition_model,
                   year, step, yearly_data, current_socioeconomic_state,
                   current_health_state, calls, run_status, retval,
                   nutritional_outcomes_direct>>

----------------------------------------------------------------------------
(* run_simulation_scenario: post-processing and aggregation *)

\* res[k1][k2] ... [kn]: a KeyError at the first absent key
RECURSIVE SubscriptPath(_, _)
SubscriptPath(d, path) ==
    IF path = <<>> THEN Num(d)
    ELSE IF d = PyNone THEN Raised
    ELSE IF Head(path) \in DOMAIN d THEN SubscriptPath(d[Head(path)], Tail(path))
    ELSE Raised

\* res.get(k1, {}).get(k2, {}) ... .get(kn, 0)
RECURSIVE GetPathOrZero(_, _)
GetPathOrZero(d, path) ==
    IF path = <<>> THEN Num(d)
    ELSE IF d = PyNone THEN Raised
    ELSE IF Head(path) \in DOMAIN d THEN GetPathOrZero(d[Head(path)], Tail(path))
    ELSE Num(0)

\* res.get(k1, {}).get(k2, {}) ... .get(kn, np.nan); None has no method get
RECURSIVE GetPath(_, _)
GetPath(d, path) ==
    IF path = <<>> THEN Num(d)
    ELSE IF d = PyNone THEN Raised
    ELSE IF Head(path) \in DOMAIN d THEN GetPath(d[Head(path)], Tail(path))
    ELSE NaN

IndicatorPaths ==
    [year |-> <<"year">>,
     total_population |-> <<"socioeconomic_state", "population", "total_population">>,
     gdp_per_capita |-> <<"socioeconomic_state", "economy", "gdp_per_capita">>,
     rice_production_total |-> <<"production_output", "total_food", "cereals", "rice">>,
     wheat_production_total |-> <<"production_output", "total_food", "cereals", "wheat">>,
     rice_price_retail |-> <<"market_state", "prices", "retail", "rice">>,
     stunting_prevalence |->
        <<"nutritional_outcomes", "nutritional_status_indicators", "stunting_prevalence">>,
     wasting_prevalence |->
        <<"nutritional_outcomes", "nutritional_status_indicators", "wasting_prevalence">>,
     avg_energy_intake |->
        <<"nutritional_outcomes", "average_nutrient_intake_per_capita_day", "energy_kcal">>]

\* pd.DataFrame(agg_data_dict): one row per year record
AnnualSummary(outputs) ==
    [i \in 1 .. Len(outputs) |->
        [col \in DOMAIN IndicatorPaths |-> GetPath(outputs[i], IndicatorPaths[col])]]

\* an exception inside one of the list comprehensions of agg_data_dict
BuildRaises(agg_df) ==
    \E i \in 1 .. Len(agg_df) : \E col \in DOMAIN agg_df[i] : agg_df[i][col] = Raised

AllNull(df, col) == \A i \in 1 .. Len(df) : df[i][col].missing

\* a formatted number; float('nan') formats as the text 'nan'
Formatted(cell) == IF cell.missing THEN [shown |-> "nan"] ELSE [shown |-> "number", value |-> cell.value]

\* the formatted number if pd.notna(cell) else "N/A"
FormattedOrNA(cell) == IF cell.missing THEN [shown |-> "N/A"] ELSE Formatted(cell)

\* Series.mean() skips the missing entries and is NaN when none is left
Mean(df, col) ==
    LET present == {i \in 1 .. Len(df) : ~df[i][col].missing}
    IN  IF present = {} THEN NaN
        ELSE Num(SumSet(present, [i \in present |-> df[i][col].value])
                    \div Cardinality(present))

KeyMetrics(agg_df) ==
    LET final_row == Last(agg_df)
    IN  [final_population |-> Formatted(final_row.total_population),
         final_gdp_per_capita |-> Formatted(final_row.gdp_per_capita),
         final_stunting_rate |-> FormattedOrNA(final_row.stunting_prevalence),
         final_wasting_rate |-> FormattedOrNA(final_row.wasting_prevalence),
         avg_energy_intake_final_year |-> FormattedOrNA(final_row.avg_energy_intake),
         avg_rice_production |-> FormattedOrNA(Mean(agg_df, "rice_production_total"))]

PlotsToMake(agg_df) ==
    LET valid_corr_cols ==
            {col \in {"rice_production_total", "stunting_prevalence",
                      "rice_price_retail", "gdp_per_capita"} : ~AllNull(agg_df, col)}
    IN  (IF ~AllNull(agg_df, "rice_production_total")
         THEN {"cereal_production_ts"} ELSE {})
        \cup (IF ~AllNull(agg_df, "stunting_prevalence") THEN {"stunting_rate_ts"} ELSE {})
        \cup (IF ~AllNull(agg_df, "wasting_prevalence") THEN {"wasting_rate_ts"} ELSE {})
        \cup (IF ~AllNull(agg_df, "avg_energy_intake") THEN {"energy_intake_ts"} ELSE {})
        \cup (IF ~AllNull(agg_df, "rice_price_retail") THEN {"rice_price_ts"} ELSE {})
        \cup (IF Cardinality(valid_corr_cols) >= 2 THEN {"indicator_correlation"} ELSE {})

\* What post-processing can fail at: writing the CSV, every plot, or the report.
PostProcessingFailures == {"none", "to_csv", "plots", "report"}

\* an error of to_csv or generate_html_report treated as an error of the scenario
PropagatePostProcessingError == "raised"

\* except Exception as e: print(f"ERROR during post-processing ..."): the error of
\* to_csv or of generate_html_report stays inside the post-processing block
AfterPostProcessingError == "completed"

\* aggregated_results['dataframes'] stored before the table is written
TableKeptAfterCsvError(header, with_df) == with_df

\* The result when pd.DataFrame(agg_data_dict) or agg_df.to_csv raised: the
\* statement aggregated_results['dataframes'] = ... comes after them and is
\* skipped, with everything else of the try block.
ResultAfterCsvError(header, with_df) == header

\* aggregated_results = parameters: the keys of the result stored in the dict of
\* the configuration
ResultInParameters(h, root) ==
    setitem(h, root, <<"parameters", "scenario_name">>, "stored")

\* aggregated_results = {'scenario_name': ..., 'simulation_period': ...,
\* 'config_summary': parameters}: the result is a dict of its own, in which
\* the parameters are referred to; the objects of the configuration stay as
\* they are
ResultDict(h, root) == h

Aggregate ==
    /\ pc = "aggregate"
    /\ \E failure \in PostProcessingFailures :
        LET header == [scenario_name |-> scenario_name,
                       simulation_period |-> <<config.start_year, config.end_year>>,
                       config_summary |-> config.parameters]
            agg_df == AnnualSummary(yearly_outputs)
            with_df == header @@ [dataframes |-> [annual_summary |-> agg_df],
                                  key_metrics |-> KeyMetrics(agg_df)]
            plot_filenames == IF failure = "plots" THEN {} ELSE PlotsToMake(agg_df)
            with_plots == with_df @@ [plot_filenames |-> plot_filenames,
                                      plot_dir |-> "plots",
                                      report_title |-> scenario_name]
            csv == {<<scenario_name, "timeseries_summary.csv">>}
            plots == {<<scenario_name, "plots", f>> : f \in plot_filenames}
            report == {<<scenario_name, "simulation_report.html">>}
        IN  IF yearly_outputs = <<>>
            THEN /\ retval' = EmptyDict
                 /\ files' = files
                 /\ run_status' = "completed"
            ELSE IF BuildRaises(agg_df)
            THEN \* agg_data_dict is built before the try block: the exception
                 \* leaves run_simulation_scenario
                 /\ retval' = PyNone
                 /\ files' = files
                 /\ run_status' = "raised"
            ELSE /\ run_status' = IF failure \in {"to_csv", "report"}
                                  THEN AfterPostProcessingError ELSE "completed"
                 /\ IF failure = "to_csv"
                    THEN /\ retval' = ResultAfterCsvError(header, with_df)
                         /\ files' = files
                    ELSE IF failure = "report"
                    THEN /\ retval' = with_plots
                         /\ files' = files \cup csv \cup plots
                    ELSE /\ retval' = with_plots
                         /\ files' = files \cup csv \cup plots \cup report
    /\ finished_runs' = Append(finished_runs, [scenario |-> scenario_name,
                                                config |-> config,
                                                yearly_outputs |-> yearly_outputs])
    /\ pc' = "return"
    /\ heap' = ResultDict(heap, ScenarioRoots[scenario_name])
    /\ UNCHANGED <<output_dir, threads, exit_status, script, pending, attempted, batch_log, all_scenario_results,
                   full_comparison_df, warnings, scenario_name, config, nutrition_model,
                   year, step, yearly_outputs, yearly_data, current_socioeconomic_state,
                   current_health_state, calls, nutritional_outcomes_direct>>

----------------------------------------------------------------------------
(* __main__: the batch loop, the comprehensive report, the comparison *)

StopAfterFailure(todo, results) == IF Truthy(results) THEN Tail(todo) ELSE <<>>

\* the for loop goes on to the next item of SCENARIOS whatever the try block did
RemainingAfter(todo, results) == Tail(todo)

\* the rest of the try/except around run_simulation_scenario
BatchRecord ==
    /\ pc = "return"
    /\ IF run_status = "raised"
       THEN /\ batch_log' = Append(batch_log, [scenario |-> scenario_name,
                                               outcome |-> "error"])
            /\ UNCHANGED all_scenario_results
       ELSE IF Truthy(retval)
       THEN /\ all_scenario_results' = (scenario_name :> retval) @@ all_scenario_results
            /\ batch_log' = Append(batch_log, [scenario |-> scenario_name,
                                               outcome |-> "completed"])
       ELSE /\ batch_log' = Append(batch_log, [scenario |-> scenario_name,
                                               outcome |-> "failed"])
            /\ UNCHANGED all_scenario_results
    /\ pending' = RemainingAfter(pending, retval)
    /\ pc' = IF pending' = <<>> THEN "report" ELSE "batch"
    /\ UNCHANGED <<output_dir, threads, heap, exit_status, finished_runs, script, attempted, files, full_comparison_df, warnings, scenario_name,
                   config, nutrition_model, year, step, yearly_outputs, yearly_data,
                   current_socioeconomic_state, current_health_state, calls, run_status,
                   retval, nutritional_outcomes_direct>>

\* the scenarios with a stored result, in the order the dict received them
StoredScenarios == SelectSeq(attempted, LAMBDA n : n \in DOMAIN all_scenario_results)

HasAnnualSummary(results) ==
    /\ Truthy(results)
    /\ "dataframes" \in DOMAIN results
    /\ "annual_summary" \in DOMAIN results.dataframes
    /\ results.dataframes.annual_summary # <<>>

\* df = annual_summary.copy(); df['scenario'] = name
Labelled(df, name) == [i \in 1 .. Len(df) |-> df[i] @@ [scenario |-> name]]

\* comparison_data = [df] in place of comparison_data.append(df)
KeepLastFrame(frames) == IF frames = <<>> THEN <<>> ELSE Last(frames)

\* pd.concat(comparison_data, ignore_index=True)
RECURSIVE Concat(_)
Concat(frames) == IF frames = <<>> THEN <<>> ELSE Head(frames) \o Concat(Tail(frames))

\* run_simulation.py builds its comparison from the key 'yearly_outputs' of a result
HasYearlyOutputs(results) ==
    "yearly_outputs" \in DOMAIN results /\ results.yearly_outputs # <<>>

\* the status the interpreter exits with: 0 at the end of the script, 1 after an
\* exception nothing caught
ExitStatus(code) == [status |-> code]

\* The comprehensive report over all stored results; a failure inside is printed as a
\* warning.  In run_simulation.py the comparison table is built inside this step.
ComprehensiveReport ==
    /\ pc = "report"
    /\ IF all_scenario_results # EmptyDict
       THEN \E report_fails \in BOOLEAN :
              /\ files' = IF report_fails THEN files
                          ELSE files \cup {<<"bangladesh_food_security_report.html">>}
              /\ warnings' = IF report_fails
                             THEN Append(warnings, [warning |-> "report"])
                             ELSE warnings
       ELSE UNCHANGED <<files, warnings>>
    /\ IF script = "run_simulation"
       THEN /\ full_comparison_df' =
                  Concat([i \in 1 .. Len(StoredScenarios) |->
                            IF HasYearlyOutputs(all_scenario_results[StoredScenarios[i]])
                            THEN Labelled(
                                   all_scenario_results[StoredScenarios[i]].yearly_outputs,
                                   StoredScenarios[i])
                            ELSE <<>>])
            /\ pc' = "done"
            /\ exit_status' = ExitStatus(0)
       ELSE /\ pc' = "compare"
            /\ UNCHANGED <<full_comparison_df, exit_status>>
    /\ UNCHANGED <<output_dir, threads, heap, finished_runs, script, pending, attempted, batch_log, all_scenario_results,
                   scenario_name, config, nutrition_model, year, step, yearly_outputs,
                   yearly_data, current_socioeconomic_state, current_health_state, calls,
                   run_status, retval, nutritional_outcomes_direct>>

\* run_full_simulation.py: the cross-scenario comparison
CrossScenarioComparison ==
    /\ pc = "compare"
    /\ LET valid == SelectSeq(StoredScenarios,
                              LAMBDA n : HasAnnualSummary(all_scenario_results[n]))
           excluded == SelectSeq(StoredScenarios,
                                 LAMBDA n : ~HasAnnualSummary(all_scenario_results[n]))
           comparison_data ==
               [i \in 1 .. Len(valid) |->
                   Labelled(all_scenario_results[valid[i]].dataframes.annual_summary,
                            valid[i])]
       IN  /\ warnings' = warnings \o [i \in 1 .. Len(excluded) |->
                                          [warning |-> "incomplete", scenario |-> excluded[i]]]
           /\ IF comparison_data # <<>>
              THEN /\ full_comparison_df' = Concat(comparison_data)
                   /\ \E makedirs_fails \in BOOLEAN, to_csv_fails \in BOOLEAN :
                        IF makedirs_fails
                        THEN \* os.makedirs is outside the try: the script ends here
                             /\ files' = files
                             /\ exit_status' = ExitStatus(1)
                        ELSE /\ files' = files \cup {<<"_comparison">>}
                                    \cup (IF to_csv_fails THEN {}
                                          ELSE {<<"_comparison", "all_scenarios_summary.csv">>})
                             /\ exit_status' = ExitStatus(0)
              ELSE /\ UNCHANGED <<full_comparison_df, files>>
                   /\ exit_status' = ExitStatus(0)
    /\ pc' = "done"
    /\ UNCHANGED <<output_dir, threads, heap, finished_runs, script, pending, attempted, batch_log, all_scenario_results,
                   scenario_name, config, nutrition_model, year, step, yearly_outputs,
                   yearly_data, current_socioeconomic_state, current_health_state, calls,
                   run_status, retval, nutritional_outcomes_direct>>

----------------------------------------------------------------------------
(* The batch as a state machine *)

Scripts == {"run_full_simulation", "run_simulation"}

Init ==
    /\ heap = LoadedHeap
    /\ finished_runs = <<>>
    /\ exit_status = PyNone
    /\ output_dir = DefaultOutputDir
    /\ threads = <<>>
    /\ script \in Scripts
    /\ pc = "batch"
    /\ pending = ScenarioNames
    /\ attempted = <<>>
    /\ batch_log = <<>>
    /\ all_scenario_results = EmptyDict
    /\ files = {}
    /\ full_comparison_df = <<>>
    /\ warnings = <<>>
    /\ scenario_name = ""
    /\ config = EmptyDict
    /\ nutrition_model = EmptyDict
    /\ year = 0
    /\ step = 1
    /\ yearly_outputs = <<>>
    /\ yearly_data = EmptyDict
    /\ current_socioeconomic_state = EmptyDict
    /\ current_health_state = EmptyDict
    /\ calls = <<>>
    /\ run_status = "idle"
    /\ retval = PyNone
    /\ nutritional_outcomes_direct = PyNone

Next ==
    \/ StartScenario
    \/ NextYear
    \/ PolicyInterventions
    \/ ClimateSimulation
    \/ SocioeconomicDynamics
    \/ AgriculturalProduction
    \/ FoodSupplyChain
    \/ MarketDynamics
    \/ NutritionalOutcomes
    \/ AppendYear
    \/ Aggregate
    \/ BatchRecord
    \/ ComprehensiveReport
    \/ CrossScenarioComparison

Spec == Init /\ [][Next]_vars

----------------------------------------------------------------------------
(* The nutrition model called on its own, as in the example at the end of   *)
(* nutritional_outcomes.py: an instance, then calls with given inputs.       *)

\* Histories an instance can hold: none loaded, the placeholder frames of
\* load_historical_data, and plain lists as a data handler would deliver them.
NutritionHistories ==
    {EmptyDict,
     load_historical_data(NutritionalOutcomesModel(EmptyDict)).historical_nutrition_data,
     [stunting_prevalence |-> [rate |-> PyList(<<4000, 1000>>)],
      wasting_prevalence |-> [rate |-> PyList(<<2000>>)],
      anemia_prevalence |-> [rate |-> PyList(<<5000>>)]]}

NutritionModelInstances ==
    {[NutritionalOutcomesModel([health_access_params |-> hap])
        EXCEPT !.historical_nutrition_data = h] :
        hap \in {EmptyDict, [coverage |-> 0], [coverage |-> 60], [coverage |-> 100]},
        h \in NutritionHistories}

FoodAvailabilityInputs ==
    {PyNone,
     EmptyDict,
     [c \in {"rice", "wheat", "pulses", "fish", "meat", "milk", "eggs"} |-> 0],
     default_food_availability,
     [rice |-> 200, wheat |-> 30, pulses |-> 15, vegetables |-> 80,
      milk |-> 40, eggs |-> 10, fish |-> 30, meat |-> 15]}

SocioeconomicStateInputs ==
    {PyNone, EmptyDict, InitialSocioeconomicState(BASE_CONFIG.initial_state)}

InitNutrition ==
    /\ heap = LoadedHeap
    /\ finished_runs = <<>>
    /\ exit_status = PyNone
    /\ output_dir = DefaultOutputDir
    /\ threads = <<>>
    /\ script = "nutritional_outcomes"
    /\ pc = "direct"
    /\ pending = <<>>
    /\ attempted = <<>>
    /\ batch_log = <<>>
    /\ all_scenario_results = EmptyDict
    /\ files = {}
    /\ full_comparison_df = <<>>
    /\ warnings = <<>>
    /\ scenario_name = ""
    /\ config = EmptyDict
    /\ nutrition_model \in NutritionModelInstances
    /\ year = START_YEAR
    /\ step = 1
    /\ yearly_outputs = <<>>
    /\ yearly_data = EmptyDict
    /\ current_socioeconomic_state = EmptyDict
    /\ current_health_state = InitialHealthState
    /\ calls = <<>>
    /\ run_status = "idle"
    /\ retval = PyNone
    /\ nutritional_outcomes_direct = PyNone

SimulateNutritionalOutcomes ==
    /\ pc = "direct"
    /\ Len(calls) < MaxDirectCalls
    /\ \E food_availability \in FoodAvailabilityInputs,
          socioeconomic_state \in SocioeconomicStateInputs :
         /\ nutritional_outcomes_direct' =
               simulate_nutritional_outcomes(nutrition_model, year, food_availability,
                                             EmptyDict, socioeconomic_state,
                                             current_health_state)
         /\ calls' = Append(calls, [model |-> "nutrition", year |-> year,
                                    food_availability |-> food_availability,
                                    socioeconomic_state |-> socioeconomic_state])
    /\ year' = year + 1
    /\ UNCHANGED <<output_dir, threads, heap, exit_status, finished_runs, script, pc, pending, attempted, batch_log, all_scenario_results, files,
                   full_comparison_df, warnings, scenario_name, config, nutrition_model,
                   step, yearly_outputs, yearly_data, current_socioeconomic_state,
                   current_health_state, run_status, retval>>

NextNutrition == SimulateNutritionalOutcomes

SpecNutrition == InitNutrition /\ [][NextNutrition]_vars

----------------------------------------------------------------------------
(* The aggregation of run_simulation_scenario applied to year records of    *)
(* every shape its .get chains provide for: any one key of an indicator     *)
(* path may be absent from a record.                                         *)

MaxRecords == 2

\* a year record as the loop body assembles it, reduced to the branches read
FullYearRecord(yr, rice) ==
    [year |-> yr,
     policy_impacts |-> [year |-> yr],
     socioeconomic_state |->
        [population |-> [total_population |-> INITIAL_POPULATION],
         economy |-> [gdp_per_capita |-> INITIAL_GDP_PER_CAPITA]],
     production_output |->
        [year |-> yr, total_food |-> [cereals |-> [rice |-> rice, wheat |-> 1200000]]],
     market_state |-> [prices |-> [retail |-> [rice |-> base_prices.rice]]],
     nutritional_outcomes |->
        [nutritional_status_indicators |->
            [stunting_prevalence |-> INITIAL_STUNTING_RATE,
             wasting_prevalence |-> INITIAL_WASTING_RATE],
         average_nutrient_intake_per_capita_day |-> [energy_kcal |-> 2200000]]]

PathPrefixes ==
    UNION {{SubSeq(IndicatorPaths[col], 1, k) : k \in 1 .. Len(IndicatorPaths[col])} :
              col \in DOMAIN IndicatorPaths}

YearRecordShapes ==
    {[drop |-> prefix, rice |-> 35000000] : prefix \in PathPrefixes}
    \cup {[drop |-> <<>>, rice |-> rice] : rice \in {0, 35000000}}

YearRecordOf(shape, yr) == DropPath(FullYearRecord(yr, shape.rice), shape.drop)

InitAggregator ==
    /\ heap = LoadedHeap
    /\ finished_runs = <<>>
    /\ exit_status = PyNone
    /\ output_dir = DefaultOutputDir
    /\ threads = <<>>
    /\ script \in Scripts
    /\ pc = "aggregate"
    /\ pending = <<>>
    /\ attempted = <<"baseline">>
    /\ batch_log = <<>>
    /\ all_scenario_results = EmptyDict
    /\ files = ResultsDirectories("baseline")
    /\ full_comparison_df = <<>>
    /\ warnings = <<>>
    /\ scenario_name = "baseline"
    /\ nutrition_model = EmptyDict
    /\ \E n \in 1 .. MaxRecords : \E shapes \in [1 .. n -> YearRecordShapes] :
          /\ config = [SCENARIOS["baseline"] EXCEPT !.end_year = START_YEAR + n - 1]
          /\ yearly_outputs = [i \in 1 .. n |-> YearRecordOf(shapes[i], START_YEAR + i - 1)]
          /\ year = START_YEAR + n - 1
    /\ step = 1
    /\ yearly_data = EmptyDict
    /\ current_socioeconomic_state = EmptyDict
    /\ current_health_state = EmptyDict
    /\ calls = <<>>
    /\ run_status = "running"
    /\ retval = PyNone
    /\ nutritional_outcomes_direct = PyNone

NextAggregator == Aggregate

SpecAggregator == InitAggregator /\ [][NextAggregator]_vars

----------------------------------------------------------------------------
(* The imported module with item assignments into the scenario               *)
(* configurations, as the overrides below the display of SCENARIOS make them *)

\* a key of the configuration itself and parameters at two depths below it
MutablePaths ==
    {<<"simulation_name">>,
     <<"parameters", "climate_resilience", "temp_anomaly_trend">>,
     <<"parameters", "market_dynamics", "world_prices", "rice">>}

NewValue(path) == IF path = <<"simulation_name">> THEN "changed" ELSE -1

InitScenarioSet ==
    /\ heap = LoadedHeap
    /\ finished_runs = <<>>
    /\ exit_status = PyNone
    /\ output_dir = DefaultOutputDir
    /\ threads = <<>>
    /\ script = "run_full_simulation"
    /\ pc = "imported"
    /\ pending = ScenarioNames
    /\ attempted = <<>>
    /\ batch_log = <<>>
    /\ all_scenario_results = EmptyDict
    /\ files = {}
    /\ full_comparison_df = <<>>
    /\ warnings = <<>>
    /\ scenario_name = ""
    /\ config = EmptyDict
    /\ nutrition_model = EmptyDict
    /\ year = 0
    /\ step = 1
    /\ yearly_outputs = <<>>
    /\ yearly_data = EmptyDict
    /\ current_socioeconomic_state = EmptyDict
    /\ current_health_state = EmptyDict
    /\ calls = <<>>
    /\ run_status = "idle"
    /\ retval = PyNone
    /\ nutritional_outcomes_direct = PyNone

\* SCENARIOS[name][k1]...[kn] = value
MutateParameter ==
    /\ pc = "imported"
    /\ \E name \in DOMAIN ScenarioRoots : \E path \in MutablePaths :
          heap' = setitem(heap, ScenarioRoots[name], path, NewValue(path))
    /\ UNCHANGED <<output_dir, threads, exit_status, finished_runs, script, pc, pending, attempted, batch_log, all_scenario_results, files,
                   full_comparison_df, warnings, scenario_name, config, nutrition_model,
                   year, step, yearly_outputs, yearly_data, current_socioeconomic_state,
                   current_health_state, calls, run_status, retval,
                   nutritional_outcomes_direct>>

NextScenarioSet == MutateParameter

SpecScenarioSet == InitScenarioSet /\ [][NextScenarioSet]_vars

----------------------------------------------------------------------------
(* run_simulation_scenario called again with a configuration it has already *)
(* run, another scenario in between: the batch loop over a list of names    *)
(* in which one name comes twice.                                            *)

RerunBatches ==
    {<<again, between, again>> :
        again \in DOMAIN ScenarioRoots, between \in DOMAIN ScenarioRoots}

InitRerun ==
    /\ heap = LoadedHeap
    /\ finished_runs = <<>>
    /\ exit_status = PyNone
    /\ output_dir = DefaultOutputDir
    /\ threads = <<>>
    /\ script \in Scripts
    /\ pc = "batch"
    /\ pending \in RerunBatches
    /\ attempted = <<>>
    /\ batch_log = <<>>
    /\ all_scenario_results = EmptyDict
    /\ files = {}
    /\ full_comparison_df = <<>>
    /\ warnings = <<>>
    /\ scenario_name = ""
    /\ config = EmptyDict
    /\ nutrition_model = EmptyDict
    /\ year = 0
    /\ step = 1
    /\ yearly_outputs = <<>>
    /\ yearly_data = EmptyDict
    /\ current_socioeconomic_state = EmptyDict
    /\ current_health_state = EmptyDict
    /\ calls = <<>>
    /\ run_status = "idle"
    /\ retval = PyNone
    /\ nutritional_outcomes_direct = PyNone

NextRerun ==
    \/ StartScenario
    \/ NextYear
    \/ PolicyInterventions
    \/ ClimateSimulation
    \/ SocioeconomicDynamics
    \/ AgriculturalProduction
    \/ FoodSupplyChain
    \/ MarketDynamics
    \/ NutritionalOutcomes
    \/ AppendYear
    \/ Aggregate
    \/ BatchRecord

SpecRerun == InitRerun /\ [][NextRerun]_vars

----------------------------------------------------------------------------
(* The batch over a scenario set in which one configuration is structurally *)
(* invalid: a year missing, or parameters that are no mapping.              *)

\* del root[key]
delitem(h, root, key) == [h EXCEPT ![root] = [k \in DOMAIN h[root] \ {key} |-> h[root][k]]]

ConfigDefects == {"no_start_year", "no_end_year", "parameters_none"}

Invalidated(h, name, defect) ==
    CASE defect = "no_start_year" -> delitem(h, ScenarioRoots[name], "start_year")
      [] defect = "no_end_year" -> delitem(h, ScenarioRoots[name], "end_year")
      [] OTHER -> setitem(h, ScenarioRoots[name], <<"parameters">>, PyNone)

\* the scenarios given an invalid configuration: the first and one in the middle
InvalidatedScenarios == {ScenarioNames[1], ScenarioNames[2]}

InitInvalidConfig ==
    /\ \E name \in InvalidatedScenarios : \E defect \in ConfigDefects :
          heap = Invalidated(LoadedHeap, name, defect)
    /\ finished_runs = <<>>
    /\ exit_status = PyNone
    /\ output_dir = DefaultOutputDir
    /\ threads = <<>>
    /\ script \in Scripts
    /\ pc = "batch"
    /\ pending = ScenarioNames
    /\ attempted = <<>>
    /\ batch_log = <<>>
    /\ all_scenario_results = EmptyDict
    /\ files = {}
    /\ full_comparison_df = <<>>
    /\ warnings = <<>>
    /\ scenario_name = ""
    /\ config = EmptyDict
    /\ nutrition_model = EmptyDict
    /\ year = 0
    /\ step = 1
    /\ yearly_outputs = <<>>
    /\ yearly_data = EmptyDict
    /\ current_socioeconomic_state = EmptyDict
    /\ current_health_state = EmptyDict
    /\ calls = <<>>
    /\ run_status = "idle"
    /\ retval = PyNone
    /\ nutritional_outcomes_direct = PyNone

SpecInvalidConfig == InitInvalidConfig /\ [][Next]_vars

----------------------------------------------------------------------------
(* One scenario run in which the output of a model may lack a nested key   *)
(* that the year loop or a later model reads: the models are loosely-typed *)
(* dictionaries, and the loop reads them with .get(key, default) in some   *)
(* places and with plain subscripts in others.                              *)

MissingKeys ==
    [policy |-> {<<"trade_policy_effects">>},
     socio |-> {<<"population", "total_population">>},
     market |-> {<<"prices", "producer">>, <<"market_supply">>}]

InitMissingKey ==
    /\ heap = LoadedHeap
    /\ finished_runs = <<>>
    /\ exit_status = PyNone
    /\ output_dir = DefaultOutputDir
    /\ threads = <<>>
    /\ script \in Scripts
    /\ pc = "batch"
    /\ pending = <<ScenarioNames[1]>>
    /\ attempted = <<>>
    /\ batch_log = <<>>
    /\ all_scenario_results = EmptyDict
    /\ files = {}
    /\ full_comparison_df = <<>>
    /\ warnings = <<>>
    /\ scenario_name = ""
    /\ config = EmptyDict
    /\ nutrition_model = EmptyDict
    /\ year = 0
    /\ step = 1
    /\ yearly_outputs = <<>>
    /\ yearly_data = EmptyDict
    /\ current_socioeconomic_state = EmptyDict
    /\ current_health_state = EmptyDict
    /\ calls = <<>>
    /\ run_status = "idle"
    /\ retval = PyNone
    /\ nutritional_outcomes_direct = PyNone

NextMissingKey ==
    \/ StartScenario
    \/ NextYear
    \/ \E path \in {<<>>} \cup MissingKeys.policy : PolicyInterventionsLacking(path)
    \/ ClimateSimulation
    \/ \E path \in {<<>>} \cup MissingKeys.socio : SocioeconomicDynamicsLacking(path)
    \/ AgriculturalProduction
    \/ FoodSupplyChain
    \/ \E path \in {<<>>} \cup MissingKeys.market : MarketDynamicsLacking(path)
    \/ NutritionalOutcomes
    \/ AppendYear
    \/ Aggregate
    \/ BatchRecord

SpecMissingKey == InitMissingKey /\ [][NextMissingKey]_vars

----------------------------------------------------------------------------
(* run_simulation.py's run_simulation_scenario called from several threads  *)
(* of one process, a scenario each, with no lock: the statements that read  *)
(* or write visualize.output_dir, interleaved.  Everything else a run       *)
(* touches is local to the call.                                             *)

MaxThreads == 2

MaxPlots == 2

\* the first entries of plots_to_make
ThreadPlots ==
    SubSeq(<<"cereal_production_ts", "stunting_rate_ts", "wasting_rate_ts",
             "energy_intake_ts", "rice_price_ts", "indicator_correlation">>, 1, MaxPlots)

InitParallel ==
    /\ heap = LoadedHeap
    /\ finished_runs = <<>>
    /\ exit_status = PyNone
    /\ output_dir = DefaultOutputDir
    /\ \E names \in [1 .. MaxThreads -> DOMAIN ScenarioRoots] :
          /\ \A t, u \in 1 .. MaxThreads : t # u => names[t] # names[u]
          /\ threads = [t \in 1 .. MaxThreads |->
                            [scenario_name |-> names[t], pc |-> "set_output_dir",
                             plots_path |-> <<names[t], "plots">>,
                             plots_to_make |-> ThreadPlots,
                             orig_output_dir |-> PyNone]]
          /\ files = UNION {ResultsDirectories(names[t]) : t \in 1 .. MaxThreads}
    /\ script = "run_simulation"
    /\ pc = "threads"
    /\ pending = <<>>
    /\ attempted = <<>>
    /\ batch_log = <<>>
    /\ all_scenario_results = EmptyDict
    /\ full_comparison_df = <<>>
    /\ warnings = <<>>
    /\ scenario_name = ""
    /\ config = EmptyDict
    /\ nutrition_model = EmptyDict
    /\ year = 0
    /\ step = 1
    /\ yearly_outputs = <<>>
    /\ yearly_data = EmptyDict
    /\ current_socioeconomic_state = EmptyDict
    /\ current_health_state = EmptyDict
    /\ calls = <<>>
    /\ run_status = "idle"
    /\ retval = PyNone
    /\ nutritional_outcomes_direct = PyNone

\* one statement of thread t: its locals, the module global and the files after it
ThreadStep(t, locals, dir, written) ==
    /\ pc = "threads"
    /\ threads' = [threads EXCEPT ![t] = locals]
    /\ output_dir' = dir
    /\ files' = files \cup written
    /\ UNCHANGED <<heap, exit_status, finished_runs, script, pc, pending, attempted,
                   batch_log, all_scenario_results, full_comparison_df, warnings,
                   scenario_name, config, nutrition_model, year, step, yearly_outputs,
                   yearly_data, current_socioeconomic_state, current_health_state,
                   calls, run_status, retval, nutritional_outcomes_direct>>

\* visualize.set_output_dir(plots_path), then the year loop on the run's own locals
SetOutputDir(t) ==
    /\ threads[t].pc = "set_output_dir"
    /\ ThreadStep(t, [threads[t] EXCEPT !.pc = IF threads[t].plots_to_make = <<>>
                                                THEN "done" ELSE "import"],
                  threads[t].plots_path, {})

\* from src.visualization.visualize import output_dir as default_output_dir
ImportOutputDir(t) ==
    /\ threads[t].pc = "import"
    /\ ThreadStep(t, [threads[t] EXCEPT !.pc = "assign", !.orig_output_dir = output_dir],
                  output_dir, {})

\* viz.output_dir = plots_path
AssignOutputDir(t) ==
    /\ threads[t].pc = "assign"
    /\ ThreadStep(t, [threads[t] EXCEPT !.pc = "plot"], threads[t].plots_path, {})

\* plot_def['func'](**plot_def['args']): the figure is saved as
\* os.path.join(output_dir, f"{scenario_name}_{filename}.png")
SavePlot(t) ==
    /\ threads[t].pc = "plot"
    /\ ThreadStep(t, [threads[t] EXCEPT !.pc = "restore"], output_dir,
                  {output_dir \o <<threads[t].scenario_name,
                                   Head(threads[t].plots_to_make)>>})

\* viz.output_dir = orig_output_dir, and on to the next plot
RestoreOutputDir(t) ==
    /\ threads[t].pc = "restore"
    /\ LET rest == Tail(threads[t].plots_to_make)
       IN  ThreadStep(t, [threads[t] EXCEPT !.plots_to_make = rest,
                                            !.pc = IF rest = <<>> THEN "done" ELSE "import"],
                      threads[t].orig_output_dir, {})

NextParallel ==
    \E t \in 1 .. MaxThreads :
        \/ SetOutputDir(t)
        \/ ImportOutputDir(t)
        \/ AssignOutputDir(t)
        \/ SavePlot(t)
        \/ RestoreOutputDir(t)

SpecParallel == InitParallel /\ [][NextParallel]_vars

----------------------------------------------------------------------------
(* The batch in which the second scenario has an end_year that lies before  *)
(* its start_year: range(start_year, end_year + 1) is empty.                 *)

MaxYearsBack == 2

InitEmptyRange ==
    /\ \E back \in 1 .. MaxYearsBack :
          heap = setitem(LoadedHeap, ScenarioRoots[ScenarioNames[2]], <<"end_year">>,
                         START_YEAR - back)
    /\ finished_runs = <<>>
    /\ exit_status = PyNone
    /\ output_dir = DefaultOutputDir
    /\ threads = <<>>
    /\ script \in Scripts
    /\ pc = "batch"
    /\ pending = ScenarioNames
    /\ attempted = <<>>
    /\ batch_log = <<>>
    /\ all_scenario_results = EmptyDict
    /\ files = {}
    /\ full_comparison_df = <<>>
    /\ warnings = <<>>
    /\ scenario_name = ""
    /\ config = EmptyDict
    /\ nutrition_model = EmptyDict
    /\ year = 0
    /\ step = 1
    /\ yearly_outputs = <<>>
    /\ yearly_data = EmptyDict
    /\ current_socioeconomic_state = EmptyDict
    /\ current_health_state = EmptyDict
    /\ calls = <<>>
    /\ run_status = "idle"
    /\ retval = PyNone
    /\ nutritional_outcomes_direct = PyNone

SpecEmptyRange == InitEmptyRange /\ [][Next]_vars

----------------------------------------------------------------------------
(* Properties *)

\* the rows of the comparison table that carry the label of a scenario
ComparisonRowsOf(name) ==
    {i \in 1 .. Len(full_comparison_df) : full_comparison_df[i].scenario = name}

\* the files a scenario has under results/ besides its two directories
OutputFilesOf(name) == {f \in files : f[1] = name} \ ResultsDirectories(name)

\* the scenarios the batch loop has reported as not completed
NotCompleted ==
    {batch_log[i].scenario : i \in {j \in 1 .. Len(batch_log) :
                                        batch_log[j].outcome # "completed"}}

\* C1: a run that reaches aggregation has appended end_year - start_year + 1 year
\* records, and a scenario whose run aborted has no per-scenario table (no result
\* stored, no summary CSV) and no row in the comparison table.
C1_RecordCount ==
    /\ (pc \in {"aggregate", "return"} /\ run_status \in {"running", "completed"})
          => Len(yearly_outputs) = config.end_year - config.start_year + 1
    /\ (pc = "return" /\ run_status = "aborted") => retval = PyNone
    /\ \A name \in NotCompleted :
          /\ name \notin DOMAIN all_scenario_results
          /\ OutputFilesOf(name) = {}
          /\ ComparisonRowsOf(name) = {}

C1_Witness ==
    /\ pc = "done"
    /\ run_status = "completed"
    /\ Len(yearly_outputs) = MaxYears
    /\ NotCompleted # {}
    /\ full_comparison_df # <<>>

\* C2: in every state the i-th year record (counting from 0) carries the year
\* start_year + i.
C2_YearOrder ==
    \A i \in 1 .. Len(yearly_outputs) :
        yearly_outputs[i].year = config.start_year + (i - 1)

C2_Witness ==
    /\ Len(yearly_outputs) = MaxYears
    /\ Len(yearly_outputs) >= 2
    /\ yearly_outputs[Len(yearly_outputs)].year = config.end_year

\* C3: once a model call has raised it is the last call of the run, the run has
\* returned None, and nothing of the scenario is reported: no stored result, no
\* file besides the directories, no row of the comparison table.
C3_AbortDiscardsRun ==
    \A i \in 1 .. Len(calls) :
        calls[i].raised =>
            /\ i = Len(calls)
            /\ pc \in {"return", "batch", "report", "compare", "done"}
            /\ run_status = "aborted"
            /\ retval = PyNone
            /\ scenario_name \notin DOMAIN all_scenario_results
            /\ OutputFilesOf(scenario_name) = {}
            /\ ComparisonRowsOf(scenario_name) = {}

C3_Witness ==
    /\ pc = "done"
    /\ calls # <<>>
    /\ Last(calls).raised
    /\ Last(calls).model = "market"
    /\ Len(yearly_outputs) >= 1
    /\ full_comparison_df # <<>>

\* C4: the scenarios attempted so far are the first ones of SCENARIOS in definition
\* order, each once, and when the batch loop is over every scenario has been
\* attempted and reported, whatever the outcomes were.
C4_BatchAttemptsAll ==
    /\ Len(attempted) <= Len(ScenarioNames)
    /\ \A i \in 1 .. Len(attempted) : attempted[i] = ScenarioNames[i]
    /\ pc \in {"report", "compare", "done"} =>
          /\ attempted = ScenarioNames
          /\ Len(batch_log) = Len(ScenarioNames)
          /\ \A i \in 1 .. Len(batch_log) : batch_log[i].scenario = ScenarioNames[i]

C4_Witness ==
    /\ pc = "done"
    /\ script = "run_simulation"
    /\ attempted = ScenarioNames
    /\ batch_log[1].outcome = "error"
    /\ batch_log[2].outcome = "failed"
    /\ batch_log[3].outcome = "completed"

RequiredOrder ==
    <<"policy", "climate", "socio", "agri", "fsc", "market", "nutrition">>

\* C5: the k-th call of a run is the call of the model at position k (mod 7) of the
\* required order, for the year start_year + (k div 7); every call before it has
\* returned, and the records of all earlier years have been appended before it;
\* when a year's record has been appended, each model has been called once per year.
C5_ModelOrder ==
    /\ \A i \in 1 .. Len(calls) :
          /\ calls[i].model = RequiredOrder[((i - 1) % Len(RequiredOrder)) + 1]
          /\ calls[i].year = config.start_year + ((i - 1) \div Len(RequiredOrder))
          /\ \A j \in 1 .. (i - 1) : ~calls[j].raised
          /\ Len(yearly_outputs) >= (i - 1) \div Len(RequiredOrder)
    /\ Len(calls) >= Len(RequiredOrder) * Len(yearly_outputs)
    /\ pc = "loop" => Len(calls) = Len(RequiredOrder) * Len(yearly_outputs)

C5_Witness ==
    /\ pc = "loop"
    /\ Len(yearly_outputs) = MaxYears
    /\ Len(calls) = Len(RequiredOrder) * MaxYears

\* the step just taken is a call of the Socioeconomic model that returned
SocioReturned ==
    /\ Len(calls') = Len(calls) + 1
    /\ Last(calls').model = "socio"
    /\ ~Last(calls').raised

\* C6: the step in which the Socioeconomic model returns replaces the carried state
\* by the returned value, which is also what the year's record keeps; no other step
\* of the year loop changes the carried state; and when a year's record is appended
\* the Socioeconomic model has been called once for that year and the record's
\* socioeconomic_state equals the carried state.
C6_CarriedStateReplaced ==
    [][/\ SocioReturned =>
            /\ current_socioeconomic_state' = Last(calls').ret
            /\ yearly_data'.socioeconomic_state = Last(calls').ret
       /\ (pc \in {"loop", "year", "append", "aggregate"} /\ ~SocioReturned) =>
            current_socioeconomic_state' = current_socioeconomic_state
       /\ (pc = "append" /\ pc' = "loop") =>
            /\ Last(yearly_outputs').socioeconomic_state = current_socioeconomic_state'
            /\ Cardinality({i \in 1 .. Len(calls) :
                              calls[i].model = "socio" /\ calls[i].year = year}) = 1
      ]_vars

C6_Witness ==
    /\ pc = "loop"
    /\ Len(yearly_outputs) >= 2
    /\ current_socioeconomic_state = Last(yearly_outputs).socioeconomic_state
    /\ current_socioeconomic_state # yearly_outputs[1].socioeconomic_state
    /\ current_socioeconomic_state.population.total_population > INITIAL_POPULATION

\* the socioeconomic state a recorded call was given
SocioArgument(c) ==
    CASE c.model = "policy" -> c.current_system_state.socioeconomic
      [] c.model = "climate" -> c.socioeconomic_factors
      [] c.model = "socio" -> c.current_state
      [] OTHER -> c.socioeconomic_state

\* the carried state at the end of the year before y
StateBefore(y) ==
    IF y = config.start_year
    THEN InitialSocioeconomicState(config.initial_state)
    ELSE yearly_outputs[y - config.start_year].socioeconomic_state

\* C7: every call of Policy, Climate and Socioeconomic in year t was given the state
\* of the end of year t-1 (the state built from initial_state in the first year);
\* every call of Market Dynamics and Nutritional Outcomes in year t was given the
\* value the Socioeconomic model returned earlier in year t, and the per-capita
\* conversion for Nutrition used the population of that value.
C7_StateHandedToModels ==
    \A i \in 1 .. Len(calls) :
        LET c == calls[i]
            returned == {j \in 1 .. (i - 1) :
                            /\ calls[j].model = "socio"
                            /\ calls[j].year = c.year
                            /\ ~calls[j].raised}
        IN  /\ c.model \in {"policy", "climate", "socio"} =>
                  SocioArgument(c) = StateBefore(c.year)
            /\ c.model \in {"market", "nutrition"} =>
                  \E j \in returned : SocioArgument(c) = calls[j].ret
            /\ c.model = "nutrition" =>
                  \E j \in returned :
                      c.population = calls[j].ret.population.total_population

C7_Witness ==
    \E i \in 1 .. Len(calls) :
        /\ calls[i].model = "nutrition"
        /\ calls[i].year = config.start_year + 1
        /\ ~calls[i].raised
        /\ calls[i].population > INITIAL_POPULATION
        /\ SocioArgument(calls[i]) # StateBefore(calls[i].year)

\* C8: in the first year Policy, Climate and Agricultural Production were given empty
\* mappings for the previous outputs; in a later year t they were given the
\* production_output, market_state, supply_chain_output and producer prices of the
\* record of year t-1.
C8_PreviousOutputs ==
    \A i \in 1 .. Len(calls) :
        LET c == calls[i]
            first == c.year = config.start_year
            prev == yearly_outputs[c.year - config.start_year]
        IN  /\ c.model = "policy" =>
                  /\ c.current_system_state.agricultural_production =
                        IF first THEN EmptyDict ELSE prev.production_output
                  /\ c.current_system_state.market_dynamics =
                        IF first THEN EmptyDict ELSE prev.market_state
                  /\ c.current_system_state.food_supply_chain =
                        IF first THEN EmptyDict ELSE prev.supply_chain_output
            /\ c.model = "climate" =>
                  c.agricultural_systems =
                        IF first THEN EmptyDict ELSE prev.production_output
            /\ c.model = "agri" =>
                  c.market_prices =
                        IF first THEN EmptyDict ELSE prev.market_state.prices.producer

C8_Witness ==
    \E i \in 1 .. Len(calls) :
        /\ calls[i].model = "agri"
        /\ calls[i].year = config.start_year + 2
        /\ calls[i].market_prices =
              yearly_outputs[2].market_state.prices.producer
        /\ yearly_outputs[2].production_output # yearly_outputs[1].production_output

\* the status reported in the i-th year record
ReportedStatus(i) == yearly_outputs[i].nutritional_outcomes.nutritional_status_indicators

\* the intake reported in the i-th year record
ReportedIntake(i) ==
    yearly_outputs[i].nutritional_outcomes.average_nutrient_intake_per_capita_day

\* C9: for every year record after the first, the reported stunting, wasting and
\* anemia prevalence are those reported for the year before plus the year's change
\* (selected by the intake adequacy, scaled by the health access modifier), floored
\* at 0.
C9_StatusAccumulates ==
    \A i \in 2 .. Len(yearly_outputs) :
        /\ ReportedStatus(i).stunting_prevalence =
              Max(0, ReportedStatus(i - 1).stunting_prevalence
                        + (StuntingChange(ReportedIntake(i))
                              * HealthAccessModifier(nutrition_model)) \div 1000)
        /\ ReportedStatus(i).wasting_prevalence =
              Max(0, ReportedStatus(i - 1).wasting_prevalence
                        + (WastingChange(ReportedIntake(i))
                              * HealthAccessModifier(nutrition_model)) \div 1000)
        /\ ReportedStatus(i).micronutrient_deficiency.ida_prevalence =
              Max(0, ReportedStatus(i - 1).micronutrient_deficiency.ida_prevalence
                        + (AnemiaChange(ReportedIntake(i))
                              * HealthAccessModifier(nutrition_model)) \div 1000)

\* C10: whatever instance and inputs the nutrition model is called with, the
\* stunting_prevalence and wasting_prevalence it reports are at least 0; the same
\* holds for the status in every year record of a scenario run.
C10_PrevalenceNonNegative ==
    /\ nutritional_outcomes_direct # PyNone =>
          /\ nutritional_outcomes_direct.nutritional_status_indicators
                .stunting_prevalence >= 0
          /\ nutritional_outcomes_direct.nutritional_status_indicators
                .wasting_prevalence >= 0
    /\ \A i \in 1 .. Len(yearly_outputs) :
          /\ ReportedStatus(i).stunting_prevalence >= 0
          /\ ReportedStatus(i).wasting_prevalence >= 0

\* a call with adequate intake on a history whose last values are smaller than the
\* decrease: the floor decides the result
C10_Witness ==
    /\ nutritional_outcomes_direct # PyNone
    /\ nutritional_outcomes_direct.nutritional_status_indicators.stunting_prevalence = 0
    /\ nutritional_outcomes_direct.nutritional_status_indicators.wasting_prevalence = 0
    /\ EnergyAdequate(nutritional_outcomes_direct.average_nutrient_intake_per_capita_day)
    /\ UnflooredPrevalence(
          1000,
          StuntingChange(nutritional_outcomes_direct.average_nutrient_intake_per_capita_day),
          HealthAccessModifier(nutrition_model)) < 0

----------------------------------------------------------------------------
(* The aggregated table *)

IndicatorColumns ==
    {"total_population", "gdp_per_capita", "rice_production_total",
     "wheat_production_total", "rice_price_retail", "stunting_prevalence",
     "wasting_prevalence", "avg_energy_intake"}

HasTable == retval # PyNone /\ "dataframes" \in DOMAIN retval

Table == retval.dataframes.annual_summary

IsNumber(cell) == DOMAIN cell = {"missing", "value"} /\ ~cell.missing

RECURSIVE PathPresent(_, _)
PathPresent(d, path) ==
    \/ path = <<>>
    \/ /\ Head(path) \in DOMAIN d
       /\ PathPresent(d[Head(path)], Tail(path))

RECURSIVE ValueAt(_, _)
ValueAt(d, path) == IF path = <<>> THEN d ELSE ValueAt(d[Head(path)], Tail(path))

\* C12: a year record that lacks any key of an indicator's path gets NaN in
\* that indicator's cell, never 0; a cell holding 0 stands for a year record
\* whose value at the path is 0.
C12_MissingIsNotZero ==
    (pc = "return" /\ HasTable) =>
        \A i \in 1 .. Len(Table) : \A col \in IndicatorColumns :
            /\ ~PathPresent(yearly_outputs[i], IndicatorPaths[col]) =>
                  Table[i][col] = NaN
            /\ Table[i][col] = Num(0) =>
                  /\ PathPresent(yearly_outputs[i], IndicatorPaths[col])
                  /\ ValueAt(yearly_outputs[i], IndicatorPaths[col]) = 0

\* one row reports a rice production of 0, the other has no rice production
C12_Witness ==
    /\ pc = "return"
    /\ HasTable
    /\ Len(Table) = MaxRecords
    /\ Table[1].rice_production_total = Num(0)
    /\ "production_output" \in DOMAIN yearly_outputs[2]
    /\ "total_food" \notin DOMAIN yearly_outputs[2].production_output
    /\ Table[2].rice_production_total = NaN

----------------------------------------------------------------------------
(* The key metrics *)

\* the metrics taken from the final row, and the column each one reads
FinalRowMetrics ==
    [final_population |-> "total_population",
     final_gdp_per_capita |-> "gdp_per_capita",
     final_stunting_rate |-> "stunting_prevalence",
     final_wasting_rate |-> "wasting_prevalence",
     avg_energy_intake_final_year |-> "avg_energy_intake"]

HasKeyMetrics == retval # PyNone /\ "key_metrics" \in DOMAIN retval

PresentEntries(df, col) == {df[i][col].value : i \in {j \in 1 .. Len(df) : ~df[j][col].missing}}

\* C13: each key metric is computed over the entries of its column that are
\* not missing: a final-row metric shows a number only if that number is a
\* present entry, the average rice production is the mean of the present
\* entries, no metric shows a formatted missing value ('nan'), and a metric
\* whose column has only missing entries shows the marker 'N/A'.
C13_MetricsOverPresentEntries ==
    (pc = "return" /\ HasKeyMetrics) =>
        /\ \A m \in DOMAIN FinalRowMetrics :
              LET shown == retval.key_metrics[m]
                  col == FinalRowMetrics[m]
              IN  /\ shown.shown # "nan"
                  /\ AllNull(Table, col) => shown.shown = "N/A"
                  /\ shown.shown = "number" => shown.value \in PresentEntries(Table, col)
        /\ LET shown == retval.key_metrics.avg_rice_production
           IN  /\ shown.shown # "nan"
               /\ AllNull(Table, "rice_production_total") => shown.shown = "N/A"
               /\ shown.shown = "number" =>
                     shown.value = Mean(Table, "rice_production_total").value

----------------------------------------------------------------------------
(* The cross-scenario comparison *)

Unlabelled(row) == [col \in DOMAIN row \ {"scenario"} |-> row[col]]

\* the rows of the comparison table labelled name, in table order, label removed
ComparisonTableOf(name) ==
    LET rows == SelectSeq(full_comparison_df, LAMBDA row : row.scenario = name)
    IN  [i \in 1 .. Len(rows) |-> Unlabelled(rows[i])]

\* the annual summary stored for a scenario; no rows when there is none
StoredSummaryOf(name) ==
    IF /\ name \in DOMAIN all_scenario_results
       /\ "dataframes" \in DOMAIN all_scenario_results[name]
    THEN all_scenario_results[name].dataframes.annual_summary
    ELSE <<>>

RECURSIVE SumLen(_)
SumLen(names) ==
    IF names = <<>> THEN 0 ELSE Len(StoredSummaryOf(Head(names))) + SumLen(Tail(names))

\* C14: when run_full_simulation.py has built its comparison table, the rows
\* labelled with a scenario are exactly the rows of that scenario's stored
\* annual summary, in order; the table has no other row (its length is the sum
\* of the summaries' lengths), and a scenario that did not complete has none.
C14_ComparisonRows ==
    (script = "run_full_simulation" /\ pc = "done") =>
        /\ \A i \in 1 .. Len(ScenarioNames) :
              ComparisonTableOf(ScenarioNames[i]) = StoredSummaryOf(ScenarioNames[i])
        /\ Len(full_comparison_df) = SumLen(ScenarioNames)
        /\ \A i \in 1 .. Len(full_comparison_df) :
              \E j \in 1 .. Len(batch_log) :
                 /\ batch_log[j].scenario = full_comparison_df[i].scenario
                 /\ batch_log[j].outcome = "completed"
        /\ \A name \in NotCompleted : ComparisonTableOf(name) = <<>>

\* two scenarios have their rows in the table and one scenario aborted
C14_Witness ==
    /\ script = "run_full_simulation"
    /\ pc = "done"
    /\ Len(full_comparison_df) = 2 * MaxYears
    /\ Len(ComparisonTableOf(ScenarioNames[2])) = MaxYears
    /\ Len(ComparisonTableOf(ScenarioNames[4])) = MaxYears
    /\ ScenarioNames[3] \in NotCompleted

\* the scenarios a diagnostic of the comparison step names
NamedAsExcluded ==
    {warnings[i].scenario : i \in {j \in 1 .. Len(warnings) :
                                        warnings[j].warning = "incomplete"}}

Completed ==
    {batch_log[i].scenario : i \in {j \in 1 .. Len(batch_log) :
                                        batch_log[j].outcome = "completed"}}

\* C15: when the comparison step of run_full_simulation.py is over and some
\* scenario completed, every scenario that did not complete is named by a
\* diagnostic of the comparison step.
C15_ExcludedAreNamed ==
    (script = "run_full_simulation" /\ pc = "done" /\ Completed # {}) =>
        NotCompleted \subseteq NamedAsExcluded

----------------------------------------------------------------------------
(* Scenario isolation *)

ConfigOf(name) == Deref(heap, ScenarioRoots[name])

ObjectsOf(name) == {r[2] : r \in Reach(heap, ScenarioRoots[name], <<>>)}

\* no dict object belongs to two scenarios
NoSharedObject ==
    \A n, m \in DOMAIN ScenarioRoots : n # m => ObjectsOf(n) \cap ObjectsOf(m) = {}

\* C16: once the module is imported, BASE_CONFIG still has the values of its
\* display and every scenario has its own overrides only; no two scenarios
\* share a dict object; and an assignment to a parameter of one scenario, at
\* any depth, leaves the configuration of every other scenario as it was.
C16_ScenarioIsolation ==
    /\ Deref(heap, Address("BASE_CONFIG", <<>>)) = BASE_CONFIG
    /\ \A n \in DOMAIN ScenarioRoots : ConfigOf(n) = SCENARIOS[n]
    /\ NoSharedObject
    /\ [][\E n \in DOMAIN ScenarioRoots :
            \A m \in DOMAIN ScenarioRoots \ {n} : ConfigOf(m)' = ConfigOf(m)]_vars

\* a nested parameter of one copy and of BASE_CONFIG (the baseline) has been
\* assigned, the other copies still have their own values
C16_Witness ==
    /\ pc = "imported"
    /\ ConfigOf("enhanced_adaptation").parameters.market_dynamics.world_prices.rice = -1
    /\ ConfigOf("baseline").parameters.climate_resilience.temp_anomaly_trend = -1
    /\ ConfigOf("high_climate_impact") = SCENARIOS["high_climate_impact"]
    /\ ConfigOf("policy_change_safety_net") = SCENARIOS["policy_change_safety_net"]

----------------------------------------------------------------------------
(* Idempotence *)

\* C17: two runs of run_simulation_scenario with the same scenario name and
\* configuration have the same sequence of year records, whatever ran between
\* them; and the records a run has appended so far are the first records of
\* every finished run of the same scenario and configuration.
C17_RerunIdentical ==
    /\ \A i, j \in 1 .. Len(finished_runs) :
          (/\ finished_runs[i].scenario = finished_runs[j].scenario
           /\ finished_runs[i].config = finished_runs[j].config)
             => finished_runs[i].yearly_outputs = finished_runs[j].yearly_outputs
    /\ \A i \in 1 .. Len(finished_runs) :
          (/\ pc \in {"loop", "year", "append", "aggregate"}
           /\ finished_runs[i].scenario = scenario_name
           /\ finished_runs[i].config = config)
             => /\ Len(yearly_outputs) <= Len(finished_runs[i].yearly_outputs)
                /\ \A k \in 1 .. Len(yearly_outputs) :
                      yearly_outputs[k] = finished_runs[i].yearly_outputs[k]

\* a scenario has run twice to the end, a different scenario in between
C17_Witness ==
    /\ Len(finished_runs) = 3
    /\ finished_runs[1].scenario = finished_runs[3].scenario
    /\ finished_runs[1].config = finished_runs[3].config
    /\ finished_runs[2].scenario # finished_runs[1].scenario
    /\ Len(finished_runs[3].yearly_outputs) = MaxYears

----------------------------------------------------------------------------
(* The summary of a completed scenario *)

\* C18: the summary of a completed scenario has one row per year from
\* start_year to end_year, in order, and the population of each row after the
\* first is the population of the row before grown by the population growth
\* rate of the socioeconomic model (rounded down to the unit of the model).
C18_YearsAndPopulation ==
    (pc = "return" /\ HasTable) =>
        LET growth_rate == Get(socio_model.population_params, "annual_growth_rate", 100)
        IN  /\ Len(Table) = config.end_year - config.start_year + 1
            /\ \A i \in 1 .. Len(Table) : Table[i].year = Num(config.start_year + i - 1)
            /\ \A i \in 1 .. Len(Table) - 1 :
                  /\ IsNumber(Table[i].total_population)
                  /\ IsNumber(Table[i + 1].total_population)
                  /\ Table[i + 1].total_population.value - Table[i].total_population.value
                        = MulRate(Table[i].total_population.value, growth_rate)

\* the run from 2025 on with 170e6 inhabitants at the start
C18_Witness ==
    /\ pc = "return"
    /\ HasTable
    /\ config.initial_state.population = INITIAL_POPULATION
    /\ Len(Table) = MaxYears
    /\ Table[1].year = Num(START_YEAR)
    /\ Table[MaxYears].year = Num(END_YEAR)
    /\ Table[2].total_population.value > Table[1].total_population.value

----------------------------------------------------------------------------
(* The exit status *)

\* C19: when the script is over, its exit status is 0 (success) if at least
\* one scenario completed and not 0 (failure) if no scenario completed.
C19_ExitStatus ==
    pc = "done" =>
        /\ exit_status # PyNone
        /\ Completed # {} => exit_status.status = 0
        /\ Completed = {} => exit_status.status # 0

----------------------------------------------------------------------------
(* Invalid configurations *)

StructurallyInvalid(cfg) ==
    \/ "start_year" \notin DOMAIN cfg
    \/ "end_year" \notin DOMAIN cfg
    \/ "parameters" \notin DOMAIN cfg
    \/ cfg.parameters = PyNone

HasInvalidConfig(name) == StructurallyInvalid(ConfigOf(name))

OutcomeOf(name) ==
    LET i == CHOOSE j \in 1 .. Len(batch_log) : batch_log[j].scenario = name
    IN  batch_log[i].outcome

Reported == {batch_log[i].scenario : i \in 1 .. Len(batch_log)}

\* C20: a scenario whose configuration lacks start_year or end_year, or whose
\* parameters are no mapping, fails alone: none of its years is simulated (no
\* model call, no year record, no finished run), it is reported as not
\* completed, nothing is stored or written for it; and every scenario of the
\* batch is still attempted, a valid one that reaches its end being stored
\* and reported as completed.
C20_InvalidConfigFailsAlone ==
    /\ \A name \in DOMAIN ScenarioRoots :
          HasInvalidConfig(name) =>
             /\ scenario_name = name => (calls = <<>> /\ yearly_outputs = <<>>)
             /\ \A i \in 1 .. Len(finished_runs) : finished_runs[i].scenario # name
             /\ name \in Reported => OutcomeOf(name) # "completed"
             /\ name \notin DOMAIN all_scenario_results
             /\ OutputFilesOf(name) = {}
             /\ ComparisonRowsOf(name) = {}
    /\ \A i \in 1 .. Len(attempted) : attempted[i] = ScenarioNames[i]
    /\ pc \in {"report", "compare", "done"} =>
          /\ attempted = ScenarioNames
          /\ Reported = DOMAIN ScenarioRoots
    /\ \A i \in 1 .. Len(finished_runs) :
          LET name == finished_runs[i].scenario
          IN  (name \in Reported /\ ~HasInvalidConfig(name)) =>
                 /\ OutcomeOf(name) = "completed"
                 /\ name \in DOMAIN all_scenario_results

\* the second scenario had no parameters mapping and was reported as failed;
\* the two scenarios after it completed and are stored
C20_Witness ==
    /\ pc = "done"
    /\ HasInvalidConfig(ScenarioNames[2])
    /\ "start_year" \in DOMAIN ConfigOf(ScenarioNames[2])
    /\ OutcomeOf(ScenarioNames[2]) = "failed"
    /\ OutcomeOf(ScenarioNames[3]) = "completed"
    /\ OutcomeOf(ScenarioNames[4]) = "completed"
    /\ {ScenarioNames[3], ScenarioNames[4]} \subseteq DOMAIN all_scenario_results

----------------------------------------------------------------------------
(* C21: a nested key absent from a model's output never aborts the scenario *)
(* when the year loop or a later model consumes it: every absence is        *)
(* recovered by a default, also a previous year's market_state without      *)
(* prices.producer and a socioeconomic state without                        *)
(* population.total_population.  An abort is therefore never the KeyError   *)
(* of a subscript of the loop.                                               *)
C21_AbsentKeyNeverAborts ==
    run_status = "aborted" => "key_error" \notin DOMAIN Last(calls)

\* the call of the model named, in the year of call i of the running scenario
CallOfYear(model, i) ==
    CHOOSE j \in 1 .. i : calls[j].model = model /\ calls[j].year = calls[i].year

\* the value handed over is the value the model's output holds under the key
TakenFromPresentKey(output, key, handed) ==
    key \in DOMAIN output /\ handed = output[key]

(* C22: the year loop never puts a default in the place of a key missing    *)
(* from a model's output: what the Market model receives as policy effects  *)
(* and what the Nutrition step derives from the market state is taken from  *)
(* keys that the Policy and Market outputs of that year hold.               *)
C22_NoDefaultInLoop ==
    \A i \in 1 .. Len(calls) :
        /\ calls[i].model = "market" =>
              \A key \in {"trade_policy_effects", "social_protection_effects"} :
                  TakenFromPresentKey(calls[CallOfYear("policy", i)].ret, key,
                                      calls[i].policy_effects[key])
        /\ calls[i].model = "nutrition" /\ "key_error" \notin DOMAIN calls[i] =>
              LET market_state == calls[CallOfYear("market", i)].ret
              IN  /\ "market_supply" \in DOMAIN market_state
                  /\ TakenFromPresentKey(Get(market_state, "prices", EmptyDict),
                                         "retail", calls[i].market_prices)

----------------------------------------------------------------------------
\* the step is the set-up of a scenario that ends at the output directories
DirectoriesNotCreated ==
    /\ pc = "batch"
    /\ run_status' \in {"setup_failed", "raised"}
    /\ ~StructurallyInvalid(config')

----------------------------------------------------------------------------
\* the plot files written by the threads: directory, "plots", scenario, plot
PlotFiles == {f \in files : Len(f) = 4}

(* C24: scenario runs executed side by side without a lock do not interfere: *)
(* every plot of scenario S lands in S's own plots directory, whatever the  *)
(* interleaving.                                                             *)
C24_PlotsInOwnDirectory ==
    \A f \in PlotFiles : f[1] = f[3] /\ f[2] = "plots"

----------------------------------------------------------------------------
(* C25: yearly_outputs is append-only.  Within a run no step removes or     *)
(* reorders a record or changes a value inside a record already appended,   *)
(* neither the models of the next year, which are handed parts of the last  *)
(* record, nor the aggregation, whose copy of the records is the same list. *)
C25_AppendOnly ==
    [][pc # "batch" =>
          /\ Len(yearly_outputs') \in {Len(yearly_outputs), Len(yearly_outputs) + 1}
          /\ SubSeq(yearly_outputs', 1, Len(yearly_outputs)) = yearly_outputs
          /\ pc = "aggregate" => Last(finished_runs').yearly_outputs = yearly_outputs]_vars

\* all years appended and aggregated, the Policy, Climate and Agricultural
\* models of the last year having been handed parts of the record before
C25_Witness ==
    /\ pc = "return"
    /\ run_status = "completed"
    /\ Len(yearly_outputs) = MaxYears
    /\ \E i \in 1 .. Len(calls) :
          /\ calls[i].model = "agri" /\ calls[i].year = END_YEAR
          /\ calls[i].market_prices = yearly_outputs[MaxYears - 1].market_state.prices.producer
    /\ \E i \in 1 .. Len(calls) :
          /\ calls[i].model = "policy" /\ calls[i].year = END_YEAR
          /\ calls[i].current_system_state.market_dynamics =
                yearly_outputs[MaxYears - 1].market_state

----------------------------------------------------------------------------
(* C26: run_simulation_scenario does not change the configuration it is     *)
(* given: when a run has completed or aborted, the configuration object of  *)
(* its scenario (start_year, end_year, initial_state, every parameter       *)
(* group) holds what it held when the run read it, and so do the objects of *)
(* the other scenarios.                                                      *)
C26_ConfigUnchanged ==
    pc = "return" /\ run_status \in {"completed", "aborted"} =>
        /\ ConfigOf(scenario_name) = config
        /\ \A name \in DOMAIN ScenarioRoots : ConfigOf(name) = SCENARIOS[name]

\* a completed run of a derived scenario whose result refers to the parameters
C26_Witness ==
    /\ pc = "return"
    /\ run_status = "completed"
    /\ scenario_name = ScenarioNames[2]
    /\ Len(yearly_outputs) = MaxYears
    /\ retval # PyNone /\ "config_summary" \in DOMAIN retval
    /\ retval.config_summary = ConfigOf(scenario_name).parameters

----------------------------------------------------------------------------
(* C27: in run_simulation.py the scenario_comparison table handed to the    *)
(* comprehensive report is the concatenation of the annual summaries of the *)
(* scenarios that succeeded, labelled: for each of them it holds as many    *)
(* rows, with that scenario's label, as the scenario's summary has years.   *)
C27_ReportComparison ==
    (script = "run_simulation" /\ pc = "done") =>
        \A name \in Completed :
            Len(ComparisonTableOf(name)) = Len(StoredSummaryOf(name))

----------------------------------------------------------------------------
\* the stored scenarios whose result holds a summary table with rows
WithSummary ==
    {name \in DOMAIN all_scenario_results : HasAnnualSummary(all_scenario_results[name])}

(* C28: the values the shipped scenario variants override, and the scenario *)
(* name, have no influence on any aggregated indicator: the summary tables  *)
(* of any two scenarios of the batch hold the same value in every column    *)
(* for every year.                                                           *)
C28_OverridesWithoutInfluence ==
    \A a, b \in WithSummary : StoredSummaryOf(a) = StoredSummaryOf(b)

\* the baseline, the climate variant and the safety net variant have run all
\* years, from configurations that differ
C28_Witness ==
    /\ {ScenarioNames[1], ScenarioNames[2], ScenarioNames[4]} \subseteq WithSummary
    /\ Len(StoredSummaryOf(ScenarioNames[4])) = MaxYears
    /\ ConfigOf(ScenarioNames[1]).parameters # ConfigOf(ScenarioNames[2]).parameters
    /\ ConfigOf(ScenarioNames[1]).parameters # ConfigOf(ScenarioNames[4]).parameters
    /\ ConfigOf(ScenarioNames[2]).parameters # ConfigOf(ScenarioNames[4]).parameters

----------------------------------------------------------------------------
HasEmptyRange(name) == ConfigOf(name).end_year < ConfigOf(name).start_year

(* C29: a scenario whose end_year is smaller than its start_year invokes no *)
(* model and appends no year record; its run returns an empty result, the   *)
(* batch loop reports it as failed, it is not stored and has no comparison  *)
(* row and no output file, although its directories have been created.      *)
C29_EmptyRangeFails ==
    \A name \in DOMAIN ScenarioRoots :
        HasEmptyRange(name) =>
           /\ scenario_name = name =>
                 /\ calls = <<>> /\ yearly_outputs = <<>>
                 /\ pc = "return" /\ run_status = "completed" =>
                       /\ retval = EmptyDict
                       /\ ResultsDirectories(name) \subseteq files
           /\ \A i \in 1 .. Len(finished_runs) :
                 finished_runs[i].scenario = name => finished_runs[i].yearly_outputs = <<>>
           /\ name \in Reported =>
                 /\ OutcomeOf(name) # "completed"
                 /\ ResultsDirectories(name) \subseteq files => OutcomeOf(name) = "failed"
           /\ name \notin DOMAIN all_scenario_results
           /\ ComparisonRowsOf(name) = {}
           /\ OutputFilesOf(name) = {}

\* the batch is over; the second scenario had an empty range of years, got its
\* directories and was reported as failed, the others completed
C29_Witness ==
    /\ pc = "done"
    /\ HasEmptyRange(ScenarioNames[2])
    /\ ResultsDirectories(ScenarioNames[2]) \subseteq files
    /\ OutcomeOf(ScenarioNames[2]) = "failed"
    /\ \E i \in 1 .. Len(finished_runs) :
          finished_runs[i].scenario = ScenarioNames[2] /\ finished_runs[i].yearly_outputs = <<>>
    /\ Completed = {ScenarioNames[1], ScenarioNames[3], ScenarioNames[4]}

----------------------------------------------------------------------------
\* the stored scenarios whose result holds no table
StoredWithoutTable ==
    {name \in DOMAIN all_scenario_results :
        "dataframes" \notin DOMAIN all_scenario_results[name]}

\* the run of the scenario simulated every year of its range
AllYearsSucceeded(name) ==
    \E i \in 1 .. Len(finished_runs) :
        /\ finished_runs[i].scenario = name
        /\ Len(finished_runs[i].yearly_outputs) =
              Cardinality(YearRange(finished_runs[i].config.start_year,
                                    finished_runs[i].config.end_year))
        /\ finished_runs[i].yearly_outputs # <<>>

(* C30: when every year of a scenario succeeded and the summary table could *)
(* not be built or written, the failure is swallowed: the scenario is       *)
(* recorded as completed and stored, its result holds no annual_summary     *)
(* table and no CSV exists; the comparison step of run_full_simulation.py   *)
(* takes no row from it and prints its 'incomplete or missing               *)
(* annual_summary' warning for these scenarios and for no other.            *)
C30_SwallowedTableFailure ==
    /\ \A name \in Reported :
          (AllYearsSucceeded(name) /\ <<name, "timeseries_summary.csv">> \notin files) =>
             /\ OutcomeOf(name) = "completed"
             /\ name \in StoredWithoutTable
             /\ ComparisonRowsOf(name) = {}
    /\ \A name \in StoredWithoutTable :
          AllYearsSucceeded(name) /\ <<name, "timeseries_summary.csv">> \notin files
    /\ (script = "run_full_simulation" /\ pc = "done") =>
          NamedAsExcluded = StoredWithoutTable

\* the batch of run_full_simulation.py is over; the second scenario ran all its
\* years, lost its table and is warned about; another scenario aborted and is not
C30_Witness ==
    /\ script = "run_full_simulation"
    /\ pc = "done"
    /\ NamedAsExcluded = {ScenarioNames[2]}
    /\ AllYearsSucceeded(ScenarioNames[2])
    /\ OutcomeOf(ScenarioNames[2]) = "completed"
    /\ OutcomeOf(ScenarioNames[3]) = "failed"
    /\ Len(full_comparison_df) = 2 * MaxYears

====
